---- MODULE Spec2Model ----
(***************************************************************************)
(* Model of the real-estate assistant backend: the language classifier     *)
(* (languageService.js), the intent extraction, query enhancement and      *)
(* relevance ranking of webSearchService.js, and the response handling of  *)
(* mistralService.js.                                                      *)
(*                                                                         *)
(* JavaScript strings are sequences of UTF-16 code units (integers), so    *)
(* that Unicode-block tests, toLowerCase, includes and regular-expression  *)
(* matching are computed as the engine computes them.                      *)
(***************************************************************************)
EXTENDS Integers, Sequences, FiniteSets, TLC

VARIABLES
    pc,               \* position of the operation under way
    text,             \* detectLanguage: the argument (a JavaScript value)
    langCode,         \* detectLanguage: the value returned
    query,            \* searchRealEstateInfo: the query argument
    leadInfo,         \* searchRealEstateInfo: the leadInfo argument
    intent,           \* location, budget, propertyType, transactionType, bedrooms
    enhancedQuery,    \* the query sent with the first request
    enhancedAgain,    \* the enhancement applied to enhancedQuery
    configured,       \* the API key and the search engine id are set
    requests,         \* the requests sent to the search provider, in order
    response,         \* the last answer of the search provider
    results,          \* the list searchRealEstateInfo returns
    hostLead,         \* generateResponse: the lead record of the host
    userMessage,      \* generateResponse / appendSearchResults: the user text
    handled,          \* generateResponse: the calls that have returned
    apiKey,           \* the API key of the AI service is set
    aiResponse,       \* appendSearchResults: the AI text
    searchResults,    \* appendSearchResults: the hits to append
    finalResponse,    \* the text generateResponse / appendSearchResults returns
    finalAgain,       \* appendSearchResults applied to finalResponse
    cleanedResponse,  \* appendSearchResults: the text under cleaning
    ending,           \* isConversationEnding: the value returned
    messageHistory,   \* generateResponse: the message-history array of the host
    formattedHistory, \* formatMessageHistory: the turn list built for the call
    scanned,          \* extractInfoFromHistory: turns the forEach has visited
    extractedInfo,    \* extractInfoFromHistory: the digest under construction
    enhancedLeadInfo, \* generateResponse: the copy of the lead record
    candidates,       \* calculateRelevanceScore: the two hits compared
    scores            \* calculateRelevanceScore: the scores of the two hits

vars == <<pc, text, langCode, query, leadInfo, intent, enhancedQuery,
          enhancedAgain, configured, requests, response, results, hostLead,
          userMessage, handled, apiKey, aiResponse, searchResults, finalResponse,
          finalAgain, cleanedResponse,
          ending, messageHistory, formattedHistory, scanned, extractedInfo,
          enhancedLeadInfo, candidates, scores>>

\* The value of a variable an operation has not produced (yet).
None == "none"

(***************************************************************************)
(* Strings                                                                 *)
(***************************************************************************)

\* The printable ASCII characters in code order: 32 (space) to 95, and 97 to
\* 126 (the grave accent, 96, occurs nowhere in the program's text).
AsciiLow == " !\"#$%&'()*+,-./0123456789:;<=>?@ABCDEFGHIJKLMNOPQRSTUVWXYZ[\\]^_"
AsciiHigh == "abcdefghijklmnopqrstuvwxyz{|}~"

\* The code unit of each one-character string.
CodeTable ==
    [c \in {SubSeq(AsciiLow, i, i) : i \in 1..Len(AsciiLow)}
           \cup {SubSeq(AsciiHigh, i, i) : i \in 1..Len(AsciiHigh)} \cup {"\n"} |->
        IF c = "\n" THEN 10
        ELSE IF \E i \in 1..Len(AsciiLow) : SubSeq(AsciiLow, i, i) = c
        THEN 31 + (CHOOSE i \in 1..Len(AsciiLow) : SubSeq(AsciiLow, i, i) = c)
        ELSE 96 + (CHOOSE i \in 1..Len(AsciiHigh) : SubSeq(AsciiHigh, i, i) = c)]

Code(c) == CodeTable[c]

\* A string literal of the source as a sequence of code units.
S(str) == [i \in 1..Len(str) |-> CodeTable[SubSeq(str, i, i)]]

\* String.prototype.toLowerCase, on one code unit: A-Z map to a-z; the other
\* code units the model uses (digits, punctuation, Indic and Arabic letters)
\* have no lower-case form.
LowerUnit(c) == IF c >= 65 /\ c <= 90 THEN c + 32 ELSE c

toLowerCase(s) == [i \in 1..Len(s) |-> LowerUnit(s[i])]

\* White space as String.prototype.trim and the \s class see it.
IsSpace(c) == c \in {9, 10, 11, 12, 13, 32, 160, 8232, 8233, 65279}

\* The number of white-space code units at the start of s.
LeadingSpaces(s) ==
    LET solid == {k \in 1..Len(s) : ~IsSpace(s[k])}
    IN IF solid = {} THEN Len(s)
       ELSE (CHOOSE k \in solid : \A j \in solid : k <= j) - 1

TrimStart(s) == SubSeq(s, LeadingSpaces(s) + 1, Len(s))

TrimEnd(s) ==
    LET solid == {k \in 1..Len(s) : ~IsSpace(s[k])}
    IN IF solid = {} THEN <<>>
       ELSE SubSeq(s, 1, CHOOSE k \in solid : \A j \in solid : k >= j)

\* String.prototype.trim
trim(s) == TrimEnd(TrimStart(s))

\* s.startsWith(sub, p): sub occurs in s right after the first p code units.
OccursAt(s, sub, p) ==
    /\ p + Len(sub) <= Len(s)
    /\ SubSeq(s, p + 1, p + Len(sub)) = sub

\* String.prototype.includes
includes(s, sub) == \E p \in 0..Len(s) : OccursAt(s, sub, p)

\* Array.prototype.join on a list of strings.
RECURSIVE join(_, _)
join(list, sep) ==
    IF list = <<>> THEN <<>>
    ELSE IF Len(list) = 1 THEN list[1]
    ELSE list[1] \o sep \o join(Tail(list), sep)

\* The elements of a sequence, first occurrences only, order kept.
Dedup(ps) ==
    LET indexed == [k \in 1..Len(ps) |-> <<k, ps[k]>>]
        firsts == SelectSeq(indexed,
                            LAMBDA e : \A j \in 1..(e[1] - 1) : ps[j] # e[2])
    IN [n \in 1..Len(firsts) |-> firsts[n][2]]

\* The lists of parts one after the other, as one list of distinct elements.
Concat(parts) ==
    LET lens == {Len(parts[k]) : k \in 1..Len(parts)}
        width == IF lens = {} THEN 0 ELSE CHOOSE w \in lens : \A v \in lens : v <= w
        grid == [n \in 1..(Len(parts) * width) |->
                    <<((n - 1) \div width) + 1, ((n - 1) % width) + 1>>]
        cells == SelectSeq(grid, LAMBDA e : e[2] <= Len(parts[e[1]]))
    IN Dedup([n \in 1..Len(cells) |-> parts[cells[n][1]][cells[n][2]]])

(***************************************************************************)
(* Regular expressions.  A pattern of the source is written as a tree:     *)
(*   Lit(s)            the characters of s in a row                        *)
(*   Class(ranges)     one character of [ranges], NotClass of [^ranges]    *)
(*   Cat(<<r1, ..>>)   r1 r2 ..                                            *)
(*   Alt(<<r1, ..>>)   r1|r2|..                                            *)
(*   Rep(r, m, n)      r{m,n}, greedy (n = Inf: no upper limit)            *)
(*   Lazy(r, m, n)     r{m,n}?                                             *)
(*   Eol               $ (no m flag: the end of the input)                 *)
(* Ends gives the positions where a match of the pattern starting at       *)
(* position p can end, in the order in which the backtracking matcher of   *)
(* the engine tries them, so that its first element is the match the       *)
(* engine reports.  A position is the number of code units before it.      *)
(***************************************************************************)
Inf == -1

Lit(s) == [t |-> "lit", s |-> s]
Class(ranges) == [t |-> "class", neg |-> FALSE, ranges |-> ranges]
NotClass(ranges) == [t |-> "class", neg |-> TRUE, ranges |-> ranges]
Cat(rs) == [t |-> "cat", rs |-> rs]
Alt(rs) == [t |-> "alt", rs |-> rs]
Rep(r, m, n) == [t |-> "rep", r |-> r, min |-> m, max |-> n, greedy |-> TRUE]
Lazy(r, m, n) == [t |-> "rep", r |-> r, min |-> m, max |-> n, greedy |-> FALSE]
Eol == [t |-> "eol"]

Star(r) == Rep(r, 0, Inf)
Plus(r) == Rep(r, 1, Inf)
Opt(r) == Rep(r, 0, 1)
\* An alternation of literals: (a|b|c)
Words(list) == Alt([k \in 1..Len(list) |-> Lit(S(list[k]))])

\* Character classes of the patterns.
One(c) == <<Code(c), Code(c)>>
Digit == Class({<<48, 57>>})                               \* \d
Space == Class({<<9, 13>>, <<32, 32>>, <<160, 160>>,
                <<8232, 8233>>, <<65279, 65279>>})          \* \s
WordRanges == {<<48, 57>>, <<65, 90>>, <<95, 95>>, <<97, 122>>}  \* \w
Dot == NotClass({<<10, 10>>, <<13, 13>>, <<8232, 8233>>})   \* .

\* Under the i flag two characters match when their case-folded forms agree.
InRanges(c, ranges, ci) ==
    \E r \in ranges :
        \/ r[1] <= c /\ c <= r[2]
        \/ ci /\ c >= 97 /\ c <= 122 /\ r[1] <= c - 32 /\ c - 32 <= r[2]
        \/ ci /\ c >= 65 /\ c <= 90 /\ r[1] <= c + 32 /\ c + 32 <= r[2]

LitAt(s, lit, p, ci) ==
    /\ p + Len(lit) <= Len(s)
    /\ \A k \in 1..Len(lit) :
          IF ci THEN LowerUnit(s[p + k]) = LowerUnit(lit[k])
          ELSE s[p + k] = lit[k]

RECURSIVE Ends(_, _, _, _)
RECURSIVE EndsCat(_, _, _, _)
RECURSIVE EndsRep(_, _, _, _, _, _, _)

\* The ends of a match of re from each position of ps, in order.
EndsFrom(re, s, ps, ci) ==
    IF Len(ps) = 1 THEN Ends(re, s, ps[1], ci)
    ELSE Concat([k \in 1..Len(ps) |-> Ends(re, s, ps[k], ci)])

EndsCat(rs, s, ps, ci) ==
    IF rs = <<>> \/ ps = <<>> THEN ps
    ELSE EndsCat(Tail(rs), s, EndsFrom(Head(rs), s, ps, ci), ci)

EndsAlt(rs, s, p, ci) ==
    Concat([k \in 1..Len(rs) |-> Ends(rs[k], s, p, ci)])

\* [class]{min,max} from p: the run of class characters after p bounds the
\* number of iterations; the longest match first when greedy, the shortest
\* first when lazy.
EndsRun(r, s, p, min, max, greedy, ci) ==
    LET stops == {k \in 1..(Len(s) - p) :
                     InRanges(s[p + k], r.ranges, ci) = r.neg}
        run == IF stops = {} THEN Len(s) - p
               ELSE (CHOOSE k \in stops : \A j \in stops : k <= j) - 1
        most == IF max # Inf /\ max < run THEN max ELSE run
    IN IF most < min THEN <<>>
       ELSE [n \in 1..(most - min + 1) |->
                IF greedy THEN p + most - (n - 1) ELSE p + min + (n - 1)]

\* r{min,max} from p: one more iteration first when greedy, none first when
\* lazy.  An iteration that consumes nothing ends the repetition.
EndsRep(r, s, p, min, max, greedy, ci) ==
    IF max = 0 THEN <<p>>
    ELSE IF r.t = "class" THEN EndsRun(r, s, p, min, max, greedy, ci)
    ELSE LET one == SelectSeq(Ends(r, s, p, ci), LAMBDA j : j > p)
             more == Concat([k \in 1..Len(one) |->
                                EndsRep(r, s, one[k],
                                        IF min > 0 THEN min - 1 ELSE 0,
                                        IF max = Inf THEN Inf ELSE max - 1,
                                        greedy, ci)])
         IN IF min > 0 THEN more
            ELSE IF greedy THEN Dedup(more \o <<p>>)
            ELSE Dedup(<<p>> \o more)

Ends(re, s, p, ci) ==
    CASE re.t = "lit" -> IF LitAt(s, re.s, p, ci) THEN <<p + Len(re.s)>> ELSE <<>>
      [] re.t = "class" ->
            IF p < Len(s) /\ (InRanges(s[p + 1], re.ranges, ci) # re.neg)
            THEN <<p + 1>> ELSE <<>>
      [] re.t = "cat" -> EndsCat(re.rs, s, <<p>>, ci)
      [] re.t = "alt" -> EndsAlt(re.rs, s, p, ci)
      [] re.t = "rep" -> EndsRep(re.r, s, p, re.min, re.max, re.greedy, ci)
      [] re.t = "eol" -> IF p = Len(s) THEN <<p>> ELSE <<>>

\* The first match of re in s at or after position from: [start, end], or
\* NoMatch.  RegExp.prototype.exec scans the start positions left to right.
NoMatch == [start |-> -1, end |-> -1]

Exec(re, s, from, ci) ==
    LET starts == {f \in from..Len(s) : Ends(re, s, f, ci) # <<>>}
    IN IF starts = {} THEN NoMatch
       ELSE LET first == CHOOSE f \in starts : \A g \in starts : f <= g
            IN [start |-> first, end |-> Head(Ends(re, s, first, ci))]

\* RegExp.prototype.test / a truthy String.prototype.match
test(re, s, ci) == \E f \in 0..Len(s) : Ends(re, s, f, ci) # <<>>

\* s.replace(re, by) without the g flag: the first match only.
replaceFirst(s, re, by, ci) ==
    LET m == Exec(re, s, 0, ci)
    IN IF m = NoMatch THEN s
       ELSE SubSeq(s, 1, m.start) \o by \o SubSeq(s, m.end + 1, Len(s))

\* s.replace(re, by) with the g flag: every match, left to right, each search
\* resuming where the previous match ended (one further after an empty match).
\* starts holds the positions at which the pattern matches, in rising order.
RECURSIVE ReplaceFrom(_, _, _, _, _, _)
ReplaceFrom(s, re, by, from, starts, ci) ==
    LET ahead == SelectSeq(starts, LAMBDA f : f >= from)
    IN IF ahead = <<>> THEN SubSeq(s, from + 1, Len(s))
       ELSE LET start == Head(ahead)
                end == Head(Ends(re, s, start, ci))
            IN SubSeq(s, from + 1, start) \o by
               \o (IF end > start THEN ReplaceFrom(s, re, by, end, Tail(ahead), ci)
                   ELSE IF end < Len(s)
                        THEN <<s[end + 1]>>
                             \o ReplaceFrom(s, re, by, end + 1, Tail(ahead), ci)
                        ELSE <<>>)

replaceAll(s, re, by, ci) ==
    ReplaceFrom(s, re, by, 0,
                SelectSeq([k \in 1..(Len(s) + 1) |-> k - 1],
                          LAMBDA f : Ends(re, s, f, ci) # <<>>),
                ci)

\* s.match(re) for a pattern pre(grp)post with one capture group: the captured
\* text match[1] of the first match, or NoCapture when nothing matches.
NoCapture == [found |-> FALSE, group |-> <<>>]

\* The group of the first way to match pre(grp)post from one start: the first
\* end of pre, and then the first end of grp, after which post matches.
HeadOr(seq, default) == IF seq = <<>> THEN default ELSE Head(seq)

GroupEnds(grp, post, s, j, ci) ==
    SelectSeq(Ends(grp, s, j, ci), LAMBDA k : Ends(post, s, k, ci) # <<>>)

GroupFrom(grp, post, s, j, ci) ==
    [start |-> j, ends |-> GroupEnds(grp, post, s, j, ci)]

FirstSpan(spans) ==
    IF spans = <<>> THEN NoMatch
    ELSE [start |-> Head(spans).start, end |-> Head(Head(spans).ends)]

FirstGroup(grp, post, s, js, ci) ==
    FirstSpan(SelectSeq([n \in 1..Len(js) |-> GroupFrom(grp, post, s, js[n], ci)],
                        LAMBDA g : g.ends # <<>>))

CaptureOf(s, g) ==
    IF g = NoMatch THEN NoCapture
    ELSE [found |-> TRUE, group |-> SubSeq(s, g.start + 1, g.end)]

Capture(pre, grp, post, s, from, ci) ==
    CaptureOf(s, HeadOr(SelectSeq([k \in 1..(Len(s) - from + 1) |->
                                      FirstGroup(grp, post, s,
                                                 Ends(pre, s, from + k - 1, ci), ci)],
                                  LAMBDA g : g # NoMatch),
                        NoMatch))

match1(pre, grp, post, s, ci) == Capture(pre, grp, post, s, 0, ci)

(***************************************************************************)
(* JavaScript values, for the arguments whose type the code tests.         *)
(***************************************************************************)
JsString(s) == [js |-> "string", s |-> s]
JsNumber(n) == [js |-> "number", n |-> n]
JsNull == [js |-> "null"]
JsUndefined == [js |-> "undefined"]
JsObject == [js |-> "object"]

\* typeof v
TypeOf(v) == IF v.js = "null" THEN "object" ELSE v.js

\* ToBoolean(v): null, undefined, 0 and "" are falsy.
Truthy(v) ==
    CASE v.js = "string" -> v.s # <<>>
      [] v.js = "number" -> v.n # 0
      [] v.js = "object" -> TRUE
      [] OTHER -> FALSE

\* The outcome of calling a method the value does not have.
TypeError == "TypeError"

(***************************************************************************)
(* languageService.js                                                      *)
(***************************************************************************)

\* The Unicode blocks of the script patterns.
Devanagari == <<2304, 2431>>   \* U+0900-U+097F
Gujarati == <<2688, 2815>>   \* U+0A80-U+0AFF
Bengali == <<2432, 2559>>   \* U+0980-U+09FF
Tamil == <<2944, 3071>>   \* U+0B80-U+0BFF
Telugu == <<3072, 3199>>   \* U+0C00-U+0C7F
Kannada == <<3200, 3327>>   \* U+0C80-U+0CFF
Malayalam == <<3328, 3455>>   \* U+0D00-U+0D7F
Gurmukhi == <<2560, 2687>>   \* U+0A00-U+0A7F
Arabic == <<1536, 1791>>   \* U+0600-U+06FF

\* /[block]{3,}/
ScriptRun(block) == Rep(Class({block}), 3, Inf)

\* The function words of the second 'hi' pattern, as code units.
HindiKeywords == <<
    <<2325, 2376, 2360, 2375>>,         \* U+0915 U+0948 U+0938 U+0947
    <<2325, 2381, 2351, 2366>>,         \* U+0915 U+094D U+092F U+093E
    <<2325, 2380, 2344>>,               \* U+0915 U+094C U+0928
    <<2325, 2361, 2366, 2305>>,         \* U+0915 U+0939 U+093E U+0901
    <<2325, 2381, 2351, 2379, 2306>>,   \* U+0915 U+094D U+092F U+094B U+0902
    <<2350, 2376, 2306>>,               \* U+092E U+0948 U+0902
    <<2361, 2350>>,                     \* U+0939 U+092E
    <<2340, 2369, 2350>>,               \* U+0924 U+0941 U+092E
    <<2310, 2346>>,                     \* U+0906 U+092A
    <<2357, 2361>>,                     \* U+0935 U+0939
    <<2351, 2361>>,                     \* U+092F U+0939
    <<2350, 2375, 2352, 2366>>,         \* U+092E U+0947 U+0930 U+093E
    <<2361, 2350, 2366, 2352, 2366>>,   \* U+0939 U+092E U+093E U+0930 U+093E
    <<2350, 2369, 2333, 2375>>,         \* U+092E U+0941 U+091D U+0947
    <<2361, 2350, 2375, 2306>> >>       \* U+0939 U+092E U+0947 U+0902

\* The function words of the 'mr' pattern, as code units.
MarathiKeywords == <<
    <<2310, 2361, 2375>>,               \* U+0906 U+0939 U+0947
    <<2344, 2366, 2361, 2368>>,         \* U+0928 U+093E U+0939 U+0940
    <<2325, 2366, 2351>>,               \* U+0915 U+093E U+092F
    <<2325, 2360, 2375>>,               \* U+0915 U+0938 U+0947
    <<2325, 2379, 2339>>,               \* U+0915 U+094B U+0923
    <<2325, 2369, 2336, 2375>>,         \* U+0915 U+0941 U+0920 U+0947
    <<2325, 2366>>,                     \* U+0915 U+093E
    <<2350, 2368>>,                     \* U+092E U+0940
    <<2310, 2350, 2381, 2361, 2368>>,   \* U+0906 U+092E U+094D U+0939 U+0940
    <<2340, 2370>>,                     \* U+0924 U+0942
    <<2340, 2369, 2350, 2381, 2361, 2368>>,
    <<2340, 2379>>,                     \* U+0924 U+094B
    <<2340, 2368>>,                     \* U+0924 U+0940
    <<2340, 2375>>,                     \* U+0924 U+0947
    <<2350, 2366, 2333, 2366>>,         \* U+092E U+093E U+091D U+093E
    <<2310, 2350, 2330, 2366>>,         \* U+0906 U+092E U+091A U+093E
    <<2350, 2354, 2366>>,               \* U+092E U+0932 U+093E
    <<2310, 2350, 2381, 2361, 2366, 2354, 2366>> >>

Literals(list) == Alt([k \in 1..Len(list) |-> Lit(list[k])])

\* this.languagePatterns, in the insertion order Object.entries follows.
languagePatterns == <<
    [langCode |-> "hi", patterns |-> <<ScriptRun(Devanagari), Literals(HindiKeywords)>>],
    [langCode |-> "mr", patterns |->
        <<Cat(<<ScriptRun(Devanagari), Lazy(Dot, 0, Inf), Literals(MarathiKeywords)>>)>>],
    [langCode |-> "gu", patterns |-> <<ScriptRun(Gujarati)>>],
    [langCode |-> "bn", patterns |-> <<ScriptRun(Bengali)>>],
    [langCode |-> "ta", patterns |-> <<ScriptRun(Tamil)>>],
    [langCode |-> "te", patterns |-> <<ScriptRun(Telugu)>>],
    [langCode |-> "kn", patterns |-> <<ScriptRun(Kannada)>>],
    [langCode |-> "ml", patterns |-> <<ScriptRun(Malayalam)>>],
    [langCode |-> "pa", patterns |-> <<ScriptRun(Gurmukhi)>>],
    [langCode |-> "ur", patterns |-> <<ScriptRun(Arabic)>> ] >>

\* patterns.some(pattern => pattern.test(s)); the 'hi' keyword pattern and the
\* 'mr' pattern carry the i flag, which changes nothing for these scripts.
AnyPatternMatches(patterns, s) ==
    \E k \in 1..Len(patterns) : test(patterns[k], s, TRUE)

\* The loop of detectLanguage over the entries from index k on.
RECURSIVE FirstLanguage(_, _, _)
FirstLanguage(entries, s, k) ==
    IF k > Len(entries) THEN "en"
    ELSE IF AnyPatternMatches(entries[k].patterns, s) THEN entries[k].langCode
    ELSE FirstLanguage(entries, s, k + 1)

\* The guard dropped to a truthiness test alone: trim is then called on
\* whatever truthy value arrives.
detectLanguageUntyped(v) ==
    IF ~Truthy(v) THEN "en"
    ELSE IF TypeOf(v) # "string" THEN TypeError
    ELSE IF Len(trim(v.s)) = 0 THEN "en"
    ELSE FirstLanguage(languagePatterns, v.s, 1)

\* The scan returning the last entry that matches instead of the first.
RECURSIVE LastLanguage(_, _, _)
LastLanguage(entries, s, k) ==
    IF k < 1 THEN "en"
    ELSE IF AnyPatternMatches(entries[k].patterns, s) THEN entries[k].langCode
    ELSE LastLanguage(entries, s, k - 1)

detectLanguageLastWins(v) ==
    IF ~Truthy(v) \/ TypeOf(v) # "string" THEN "en"
    ELSE IF Len(trim(v.s)) = 0 THEN "en"
    ELSE LastLanguage(languagePatterns, v.s, Len(languagePatterns))

\* detectLanguage(text)
detectLanguage(v) ==
    IF ~Truthy(v) \/ TypeOf(v) # "string" THEN "en"
    ELSE IF Len(trim(v.s)) = 0 THEN "en"
    ELSE FirstLanguage(languagePatterns, v.s, 1)

(***************************************************************************)
(* webSearchService.js: intent extraction (searchRealEstateInfo, 60-177)   *)
(***************************************************************************)

Strs(list) == [k \in 1..Len(list) |-> S(list[k])]

\* A pattern with its capture group set apart: pre(grp)post.  A pattern
\* without a group has grp = NoGroup, and match[1] is then undefined.
NoGroup == [t |-> "nogroup"]
Empty == Cat(<<>>)
Pattern(pre, grp, post) == [pre |-> pre, grp |-> grp, post |-> post]

\* match && match[1] ? match[1] : nothing, for query.match(pattern) (i flag)
TruthyGroup(m) == IF m.found /\ m.group # <<>> THEN m ELSE NoCapture

Group1(pattern, s) ==
    IF pattern.grp = NoGroup THEN NoCapture
    ELSE TruthyGroup(match1(pattern.pre, pattern.grp, pattern.post, s, TRUE))

\* break at the first match: the later patterns are tried only after a
\* pattern without a truthy match[1].
OrElse(m, later) == IF m.found THEN m ELSE later

\* The first pattern of the list, from index k on, with a truthy match[1].
RECURSIVE FirstCapture(_, _, _)
FirstCapture(patterns, s, k) ==
    IF k > Len(patterns) THEN NoCapture
    ELSE OrElse(Group1(patterns[k], s), FirstCapture(patterns, s, k + 1))

\* The cities of the fourth location pattern, in the order of the alternation
\* (a name the source lists twice is kept at its first place, which is the
\* only one the matcher can use).
Gazetteer == <<
    "mumbai", "delhi", "bangalore", "hyderabad", "chennai", "kolkata",
    "pune", "ahmedabad", "jaipur", "surat", "lucknow", "kanpur", "nagpur",
    "indore", "thane", "bhopal", "visakhapatnam", "patna", "vadodara",
    "ghaziabad", "ludhiana", "agra", "nashik", "faridabad", "meerut",
    "rajkot", "varanasi", "srinagar", "aurangabad", "dhanbad", "amritsar",
    "navi mumbai", "allahabad", "ranchi", "howrah", "coimbatore", "jabalpur",
    "gwalior", "vijayawada", "jodhpur", "madurai", "raipur", "kota",
    "guwahati", "chandigarh", "solapur", "hubli", "dharwad", "bareilly",
    "moradabad", "mysore", "gurgaon", "aligarh", "jalandhar",
    "tiruchirappalli", "bhubaneswar", "salem", "mira-bhayandar", "warangal",
    "guntur", "bhiwandi", "saharanpur", "gorakhpur", "bikaner", "amravati",
    "noida", "jamshedpur", "bhilai", "cuttack", "firozabad", "kochi",
    "nellore", "bhavnagar", "dehradun", "durgapur", "asansol", "rourkela",
    "nanded", "kolhapur", "ajmer", "akola", "gulbarga", "jamnagar", "ujjain",
    "loni", "siliguri", "jhansi", "ulhasnagar", "jammu", "sangli-miraj",
    "mangalore", "erode", "belgaum", "ambattur", "tirunelveli", "malegaon",
    "gaya", "jalgaon", "udaipur", "maheshtala", "tirupur", "davanagere",
    "kozhikode", "akbarpur", "korba", "bhilwara", "berhampur", "muzaffarpur",
    "ahmednagar", "mathura", "kollam", "avadi", "kadapa", "kamarhati",
    "sambalpur", "bilaspur", "shahjahanpur", "satara", "bijapur", "rampur",
    "shimoga", "chandrapur", "tumkur", "muzaffarnagar", "bhagalpur", "bally",
    "panihati", "rohtak", "sagar", "bidar", "brahmapur", "baranagar",
    "darbhanga", "sonipat", "pondicherry", "durg", "imphal", "ratlam",
    "hapur", "anantapur", "arrah", "karimnagar", "etawah", "ambarnath",
    "north", "dumdum", "bharatpur", "begusarai", "new", "gandhidham",
    "barasat", "rae", "bareli", "khammam", "nagar", "bhiwani", "cuddalore",
    "rajpur", "sonarpur", "rajahmundry", "bokaro", "south", "bellary",
    "patiala", "gopalpur", "agartala", "bhatpara", "hazaribagh", "dhule",
    "panvel", "mango", "haldia", "kurnool", "tiruppur", "ambala", "panipat",
    "kottayam", "tirupati", "karnal", "bathinda", "shivamogga", "raebareli" >>

\* propertyTypes
propertyTypes == Strs(<<
    "apartment", "house", "villa", "flat", "plot", "land", "penthouse",
    "studio", "duplex", "bungalow", "cottage", "farmhouse", "rowhouse",
    "townhouse", "1bhk", "2bhk", "3bhk", "4bhk", "5bhk", "rk", "single room",
    "commercial", "office", "shop", "retail", "warehouse", "industrial",
    "pg", "paying guest", "independent house", "independent floor",
    "builder floor", "kothi", "haveli", "residential apartment",
    "residential plot", "residential land", "residential house",
    "commercial property", "commercial space", "commercial plot",
    "commercial land", "agricultural land", "farm land", "farm house",
    "resort", "service apartment" >>)

\* buyTerms (the Hindi, Marathi and Gujarati terms as code units)
buyTerms == <<
    S("buy"), S("purchase"), S("buying"), S("purchasing"), S("own"),
    S("owning"), S("investment"), S("investing"), S("kharidna"), S("kharid"),
    <<2326, 2352, 2368, 2342, 2344, 2366>>, <<2326, 2352, 2368, 2342>>,
    <<2357, 2367, 2325, 2351>>, <<2326, 2352, 2375, 2342, 2368>>,
    <<2710, 2736, 2752, 2726, 2741, 2753, 2690>> >>

\* rentTerms
rentTerms == <<
    S("rent"), S("renting"), S("lease"), S("leasing"), S("temporary"),
    S("short term"), S("kiraya"), <<2325, 2367, 2352, 2366, 2351, 2366>>,
    <<2349, 2366, 2337, 2364, 2375>>, <<2349, 2366, 2337, 2375>>,
    <<2733, 2750, 2721, 2759>> >>

Rupee == Lit(<<8377>>)   \* U+20B9
Prepositions == Words(<<"in", "at", "near", "around", "within">>)
LocationText == Plus(Class(WordRanges \cup {<<9, 13>>, <<32, 32>>, One(",")}))  \* [\w\s,]+

locationPatterns == <<
    Pattern(Cat(<<Prepositions, Plus(Space)>>), LocationText, Empty),
    Pattern(Empty, LocationText,
            Cat(<<Plus(Space),
                  Words(<<"area", "locality", "region", "district", "neighborhood">>)>>)),
    Pattern(Cat(<<Lit(S("propert")), Alt(<<Lit(S("ies")), Lit(S("y"))>>), Plus(Space),
                  Prepositions, Plus(Space)>>),
            LocationText, Empty),
    Pattern(Empty, Words(Gazetteer), Empty) >>

\* location = match[1].trim()
TrimmedGroup(m) == IF m.found THEN trim(m.group) ELSE <<>>

\* The location taken from the query, the lead record not looked at.
extractLocationFromQuery(q, lead) == TrimmedGroup(FirstCapture(locationPatterns, q, 1))

\* let location = leadInfo.preferredLocation || ''; if (!location) { ... }
extractLocation(q, lead) ==
    IF lead.preferredLocation # <<>> THEN lead.preferredLocation
    ELSE TrimmedGroup(FirstCapture(locationPatterns, q, 1))

BudgetWord == Words(<<"budget", "price", "cost", "value", "worth", "range">>)
Currency == Alt(<<Cat(<<Lit(S("rs")), Opt(Lit(S(".")))>>), Lit(S("inr")), Rupee>>)
Amount == Cat(<<Digit, Star(Class({<<48, 57>>, One(","), One(".")}))>>)   \* \d[\d,.]*

budgetPatterns == <<
    Pattern(Cat(<<BudgetWord, Plus(Space), Opt(Words(<<"of", "is", "around", "about">>)),
                  Star(Space), Opt(Currency), Star(Space)>>),
            Amount, Empty),
    Pattern(Empty, Amount,
            Cat(<<Star(Space),
                  Alt(<<Cat(<<Lit(S("rs")), Opt(Lit(S(".")))>>), Lit(S("inr")), Rupee,
                        Lit(S("lakh")), Lit(S("crore")), Lit(S("k")), Lit(S("l")),
                        Lit(S("cr"))>>)>>)),
    Pattern(Cat(<<BudgetWord, Plus(Space), Words(<<"between", "from">>), Star(Space),
                  Opt(Currency), Star(Space)>>),
            Amount,
            Cat(<<Star(Space), Words(<<"to", "-", "and">>), Star(Space), Opt(Currency),
                  Star(Space), Amount>>)),
    Pattern(Cat(<<Words(<<"under", "below", "less than", "maximum", "max">>), Star(Space),
                  Opt(Currency), Star(Space)>>),
            Amount, Empty),
    Pattern(Cat(<<Words(<<"above", "over", "more than", "minimum", "min">>), Star(Space),
                  Opt(Currency), Star(Space)>>),
            Amount, Empty) >>

\* match[1].replace(/[,.]/g, '')
StripSeparators(s) == SelectSeq(s, LAMBDA c : c # Code(",") /\ c # Code("."))

\* budget = match[1].replace(/[,.]/g, '')
StrippedGroup(m) == IF m.found THEN StripSeparators(m.group) ELSE <<>>

\* let budget = leadInfo.budget || ''; if (!budget) { ... }
extractBudget(q, lead) ==
    IF lead.budget # <<>> THEN lead.budget
    ELSE StrippedGroup(FirstCapture(budgetPatterns, q, 1))

\* The first entry of the list that s includes, the empty string when none is.
FirstIncluded(list, s) == HeadOr(SelectSeq(list, LAMBDA w : includes(s, w)), <<>>)

\* let propertyType = leadInfo.propertyType || ''; if (!propertyType) { ... }
extractPropertyType(q, lead) ==
    IF lead.propertyType # <<>> THEN lead.propertyType
    ELSE FirstIncluded(propertyTypes, toLowerCase(q))

AnyIncluded(list, s) == \E k \in 1..Len(list) : includes(s, list[k])

\* The transaction type of the lead record, when it has one, before the
\* terms of the query.
extractTransactionTypeCarried(q, lead) ==
    IF lead.transactionType # <<>> THEN lead.transactionType
    ELSE IF AnyIncluded(buyTerms, toLowerCase(q)) THEN S("buy")
    ELSE IF AnyIncluded(rentTerms, toLowerCase(q)) THEN S("rent")
    ELSE <<>>

\* let transactionType = ''; the buy terms first, then the rent terms.  The
\* lead record is not read.
extractTransactionType(q, lead) ==
    IF AnyIncluded(buyTerms, toLowerCase(q)) THEN S("buy")
    ELSE IF AnyIncluded(rentTerms, toLowerCase(q)) THEN S("rent")
    ELSE <<>>

Digits == Plus(Digit)
BedroomWord == Words(<<"bedroom", "bhk", "bed">>)

bedroomPatterns == <<
    Pattern(Empty, Digits, Cat(<<Star(Space), Lit(S("bhk"))>>)),
    Pattern(Empty, Digits, Cat(<<Star(Space), Lit(S("bedroom"))>>)),
    Pattern(Empty, Digits, Cat(<<Star(Space), Lit(S("bed"))>>)),
    Pattern(Empty, Words(<<"one", "two", "three", "four", "five", "1", "2", "3", "4", "5">>),
            Cat(<<Star(Space), BedroomWord>>)),
    Pattern(Cat(<<Words(<<"single", "double", "triple">>), Star(Space), BedroomWord>>),
            NoGroup, Empty) >>

\* The conversion of text numbers to digits.
BedroomDigits(word) ==
    LET w == toLowerCase(word)
    IN CASE w = S("one") -> S("1")
         [] w = S("two") -> S("2")
         [] w = S("three") -> S("3")
         [] w = S("four") -> S("4")
         [] w = S("five") -> S("5")
         [] w = S("single") -> S("1")
         [] w = S("double") -> S("2")
         [] w = S("triple") -> S("3")
         [] OTHER -> word

\* bedrooms = the digits of match[1]
BedroomGroup(m) == IF m.found THEN BedroomDigits(m.group) ELSE <<>>

\* let bedrooms = ''; the lead record is not read.
extractBedrooms(q, lead) == BedroomGroup(FirstCapture(bedroomPatterns, q, 1))

\* The five slots extracted by searchRealEstateInfo(query, leadInfo).
extractIntent(q, lead) ==
    [location |-> extractLocation(q, lead),
     budget |-> extractBudget(q, lead),
     propertyType |-> extractPropertyType(q, lead),
     transactionType |-> extractTransactionType(q, lead),
     bedrooms |-> extractBedrooms(q, lead)]

(***************************************************************************)
(* webSearchService.js: the enhanced query (searchRealEstateInfo, 179-219) *)
(***************************************************************************)

\* this.premiumPortals
premiumPortals == <<"99acres.com", "magicbricks.com", "housing.com", "nobroker.in",
                    "commonfloor.com", "squareyards.com", "makaan.com", "proptiger.com">>

\* ` (${this.premiumPortals.join(' OR ')})`
portalQueryPart == S(" (") \o join(Strs(premiumPortals), S(" OR ")) \o S(")")

\* The words whose presence in the query keeps ' real estate property' away.
contextWords == Strs(<<"real estate", "property", "flat", "house", "apartment">>)

\* One presence-checked append: text is added unless the test holds.
AppendUnless(present, s, addition) == IF present THEN s ELSE s \o addition

\* Lines 182-189: the real estate context.
AppendContext(q) ==
    AppendUnless(AnyIncluded(contextWords, toLowerCase(q)), q, S(" real estate property"))

\* Lines 191-194: the location.
AppendLocation(e, i) ==
    AppendUnless(i.location = <<>> \/ includes(toLowerCase(e), toLowerCase(i.location)),
                 e, S(" in ") \o i.location)

\* Lines 196-199: the property type.
AppendPropertyType(e, i) ==
    AppendUnless(i.propertyType = <<>>
                   \/ includes(toLowerCase(e), toLowerCase(i.propertyType)),
                 e, S(" ") \o i.propertyType)

\* Lines 201-204: the transaction type.
AppendTransactionType(e, i) ==
    AppendUnless(i.transactionType = <<>> \/ includes(toLowerCase(e), i.transactionType),
                 e, S(" for ") \o i.transactionType)

\* Lines 206-209: the budget.
AppendBudget(e, i) ==
    AppendUnless(i.budget = <<>> \/ includes(e, i.budget), e, S(" ") \o i.budget)

\* Lines 211-216: the bedrooms.
AppendBedrooms(e, i) ==
    AppendUnless(i.bedrooms = <<>>
                   \/ includes(toLowerCase(e), i.bedrooms \o S(" bhk"))
                   \/ includes(toLowerCase(e), i.bedrooms \o S(" bedroom")),
                 e, S(" ") \o i.bedrooms \o S(" bhk"))

\* The query with the presence-checked additions of lines 182-216.
queryWithIntent(q, i) ==
    AppendBedrooms(
        AppendBudget(
            AppendTransactionType(
                AppendPropertyType(AppendLocation(AppendContext(q), i), i), i), i), i)

\* The portal part appended only when the query does not hold it yet.
buildEnhancedQueryOnce(q, i) ==
    AppendUnless(includes(q, portalQueryPart), queryWithIntent(q, i), portalQueryPart)

\* let enhancedQuery = query; ... enhancedQuery += ` (${portalQueryPart})`
buildEnhancedQuery(q, i) == queryWithIntent(q, i) \o portalQueryPart

(***************************************************************************)
(* webSearchService.js: calculateRelevanceScore (434-747)                  *)
(***************************************************************************)

\* s.replace(lit, '') with a string pattern: the first occurrence only.
RemoveFirst(s, lit) ==
    LET at == {p \in 0..Len(s) : OccursAt(s, lit, p)}
    IN IF at = {} THEN s
       ELSE LET p == CHOOSE p \in at : \A q \in at : p <= q
            IN SubSeq(s, 1, p) \o SubSeq(s, p + Len(lit) + 1, Len(s))

\* realEstateWebsites
premiumSites ==
    [k \in 1..Len(premiumPortals) |->
        RemoveFirst(RemoveFirst(S(premiumPortals[k]), S(".com")), S(".in"))]
standardSites == Strs(<<"commonfloor", "squareyards", "makaan", "proptiger",
                        "propertywala", "indiaproperty">>)
otherSites == Strs(<<"olx", "quikr", "nestaway", "zolo", "stanza", "colive",
                     "facebook", "instagram", "linkedin">>)

\* The source-domain tier: the later tiers are looked at while score === 0.
SiteScore(link) ==
    IF AnyIncluded(premiumSites, link) THEN 20
    ELSE IF AnyIncluded(standardSites, link) THEN 15
    ELSE IF AnyIncluded(otherSites, link) THEN 5
    ELSE 0

\* relatedTypes[propertyType], or no list
relatedTypes(type) ==
    CASE type = S("apartment") -> Strs(<<"flat", "condo", "condominium", "residential apartment">>)
      [] type = S("flat") -> Strs(<<"apartment", "condo", "condominium", "residential flat">>)
      [] type = S("house") -> Strs(<<"villa", "bungalow", "independent", "kothi", "residential house">>)
      [] type = S("villa") -> Strs(<<"house", "bungalow", "independent", "kothi">>)
      [] type = S("plot") -> Strs(<<"land", "residential plot", "residential land">>)
      [] type = S("land") -> Strs(<<"plot", "residential land", "residential plot">>)
      [] type = S("1bhk") -> Strs(<<"1 bhk", "one bedroom", "1 bedroom", "single bedroom">>)
      [] type = S("2bhk") -> Strs(<<"2 bhk", "two bedroom", "2 bedroom", "double bedroom">>)
      [] type = S("3bhk") -> Strs(<<"3 bhk", "three bedroom", "3 bedroom", "triple bedroom">>)
      [] type = S("4bhk") -> Strs(<<"4 bhk", "four bedroom", "4 bedroom", "quadruple bedroom">>)
      [] type = S("commercial") -> Strs(<<"office", "shop", "retail", "commercial property", "commercial space">>)
      [] OTHER -> <<>>

PropertyTypeScore(title, snippet, propertyType) ==
    IF propertyType = <<>> THEN 0
    ELSE IF includes(title, propertyType) THEN 12
    ELSE IF includes(snippet, propertyType) THEN 8
    ELSE IF \E k \in 1..Len(relatedTypes(propertyType)) :
               \/ includes(title, relatedTypes(propertyType)[k])
               \/ includes(snippet, relatedTypes(propertyType)[k])
    THEN 6
    ELSE 0

\* s.split(/\s+/)
SplitOnSpace(s) ==
    LET index == [k \in 1..Len(s) |-> k]
        starts == SelectSeq(index, LAMBDA k : ~IsSpace(s[k]) /\ (k = 1 \/ IsSpace(s[k - 1])))
        stops == SelectSeq(index, LAMBDA k : ~IsSpace(s[k]) /\ (k = Len(s) \/ IsSpace(s[k + 1])))
    IN (IF s = <<>> \/ IsSpace(s[1]) THEN << <<>> >> ELSE <<>>)
       \o [n \in 1..Len(starts) |-> SubSeq(s, starts[n], stops[n])]
       \o (IF s # <<>> /\ IsSpace(s[Len(s)]) THEN << <<>> >> ELSE <<>>)

LocationScore(title, snippet, location) ==
    LET locationLower == toLowerCase(location)
        locationParts == SplitOnSpace(locationLower)
    IN IF location = <<>> THEN 0
       ELSE IF includes(title, locationLower) THEN 15
       ELSE IF includes(snippet, locationLower) THEN 10
       ELSE IF \E k \in 1..Len(locationParts) :
                  /\ Len(locationParts[k]) > 3
                  /\ includes(title, locationParts[k]) \/ includes(snippet, locationParts[k])
       THEN 5
       ELSE 0

\* title.match(pattern) || snippet.match(pattern), for some pattern of the list
MatchesAny(patterns, title, snippet) ==
    \E k \in 1..Len(patterns) :
        test(patterns[k], title, TRUE) \/ test(patterns[k], snippet, TRUE)

\* The patterns that match, counted.
CountMatches(patterns, title, snippet) ==
    Cardinality({k \in 1..Len(patterns) :
        test(patterns[k], title, TRUE) \/ test(patterns[k], snippet, TRUE)})

Unit == Words(<<"lakh", "crore", "k", "l", "cr">>)
Decimal == Cat(<<Digits, Opt(Cat(<<Lit(S(".")), Digits>>))>>)   \* \d+(\.\d+)?

pricePatterns == <<
    Cat(<<Rupee, Star(Space), Amount, Star(Space), Opt(Unit)>>),
    Cat(<<Lit(S("rs")), Opt(Lit(S("."))), Star(Space), Amount, Star(Space), Opt(Unit)>>),
    Cat(<<Lit(S("inr")), Star(Space), Amount, Star(Space), Opt(Unit)>>),
    Cat(<<Amount, Star(Space), Unit>>),
    Cat(<<Lit(S("price")), Star(Space), Lit(S(":")), Star(Space), Amount>>),
    Cat(<<Lit(S("cost")), Star(Space), Lit(S(":")), Star(Space), Amount>>),
    Cat(<<Lit(S("budget")), Star(Space), Lit(S(":")), Star(Space), Amount>>),
    Cat(<<Decimal, Star(Space), Lit(S("cr"))>>),
    Cat(<<Decimal, Star(Space), Lit(S("l"))>>),
    Cat(<<Decimal, Star(Space), Lit(S("lacs"))>>),
    Cat(<<Decimal, Star(Space), Lit(S("lakhs"))>>) >>

PriceScore(title, snippet) == IF MatchesAny(pricePatterns, title, snippet) THEN 8 ELSE 0

\* parseInt of a string of digits (NaN, which no comparison satisfies, as -1)
RECURSIVE ParseDigits(_, _)
ParseDigits(s, n) ==
    IF s = <<>> \/ Head(s) < 48 \/ Head(s) > 57 THEN n
    ELSE ParseDigits(Tail(s), 10 * n + (Head(s) - 48))

parseInt(s) ==
    LET t == TrimStart(s)
    IN IF t = <<>> \/ Head(t) < 48 \/ Head(t) > 57 THEN -1 ELSE ParseDigits(t, 0)

\* new RegExp(`${bedrooms}\\s*bhk`, 'i') and the like
bedroomMatchPatterns(bedrooms) == <<
    Cat(<<Lit(bedrooms), Star(Space), Lit(S("bhk"))>>),
    Cat(<<Lit(bedrooms), Star(Space), Lit(S("bedroom"))>>),
    Cat(<<Lit(bedrooms), Star(Space), Lit(S("bed"))>>),
    Cat(<<Lit(bedrooms), Star(Space), Lit(S("rk"))>> ) >>

BedroomScore(title, snippet, bedrooms) ==
    IF bedrooms = <<>> THEN 0
    ELSE IF MatchesAny(bedroomMatchPatterns(bedrooms), title, snippet) THEN 15
    ELSE IF /\ parseInt(bedrooms) >= 3
            /\ \/ includes(title, S("spacious")) \/ includes(title, S("large"))
               \/ includes(snippet, S("spacious")) \/ includes(snippet, S("large"))
    THEN 3
    ELSE 0

Sp == Star(Space)
Num(word) == Cat(<<Digits, Sp, word>>)
Phrase(words) == Cat([k \in 1..(2 * Len(words) - 1) |->
                        IF k % 2 = 1 THEN Lit(S(words[(k + 1) \div 2])) ELSE Sp])

propertyDetailPatterns == <<
    Num(Lit(S("bhk"))),
    Num(Lit(S("bedroom"))),
    Num(Lit(S("bath"))),
    Cat(<<Digits, Sp, Lit(S("sq")), Opt(Lit(S("."))), Sp, Lit(S("ft"))>>),
    Cat(<<Digits, Sp, Lit(S("square")), Sp, Lit(S("feet"))>>),
    Cat(<<Digits, Sp, Lit(S("sq")), Opt(Lit(S("."))), Sp, Lit(S("m"))>>),
    Num(Lit(S("acre"))),
    Num(Lit(S("yard"))),
    Lit(S("amenities")),
    Lit(S("furnished")),
    Lit(S("semi-furnished")),
    Lit(S("unfurnished")),
    Phrase(<<"carpet", "area">>),
    Phrase(<<"built", "up", "area">>),
    Phrase(<<"super", "built", "up">>),
    Phrase(<<"floor", "plan">>),
    Phrase(<<"master", "bedroom">>),
    Phrase(<<"attached", "bath">>),
    Phrase(<<"modular", "kitchen">>),
    Phrase(<<"power", "backup">>),
    Phrase(<<"24x7", "water">>),
    Lit(S("security")),
    Alt(<<Lit(S("gym")), Phrase(<<"swimming", "pool">>), Phrase(<<"club", "house">>),
          Lit(S("garden")), Lit(S("park"))>>) >>

Banded(count, high, mid, low) ==
    IF count >= 5 THEN high ELSE IF count >= 3 THEN mid ELSE IF count >= 1 THEN low ELSE 0

DetailPatternScore(title, snippet) ==
    Banded(CountMatches(propertyDetailPatterns, title, snippet), 12, 8, 4)

Ago(word) == Cat(<<Rep(Digit, 1, 2), Sp, Lit(S(word)), Opt(Lit(S("s"))), Sp, Lit(S("ago"))>>)
InYear(word) == Cat(<<Lit(S(word)), Sp, Lit(S("in")), Sp, Rep(Digit, 4, 4)>>)

recencyPatterns == <<
    Phrase(<<"new", "launch">>),
    Phrase(<<"just", "launch">>),
    Lit(S("recent")),
    Lit(S("latest")),
    Phrase(<<"new", "project">>),
    Phrase(<<"under", "construction">>),
    Phrase(<<"ready", "to", "move">>),
    Phrase(<<"immediate", "possession">>),
    Ago("day"),
    Ago("hour"),
    InYear("possession"),
    InYear("completion"),
    Phrase(<<"ready", "to", "move", "in">>),
    Phrase(<<"newly", "built">>),
    Phrase(<<"fresh", "listing">>) >>

RecencyScore(title, snippet) == IF MatchesAny(recencyPatterns, title, snippet) THEN 5 ELSE 0

\* buyPatterns: each a literal under the i flag
buyPatterns == <<
    Lit(S("buy")), Lit(S("sale")), Lit(S("selling")), Lit(S("purchase")),
    Lit(S("invest")), Lit(S("ownership")),
    Lit(<<2326, 2352, 2368, 2342, 2344, 2366>>),
    Lit(<<2326, 2352, 2368, 2342>>), Lit(<<2357, 2367, 2325, 2351>>),
    Lit(<<2326, 2352, 2375, 2342, 2368>>),
    Lit(<<2710, 2736, 2752, 2726, 2741, 2753, 2690>>) >>

\* rentPatterns
rentPatterns == <<
    Lit(S("rent")), Lit(S("lease")), Lit(S("renting")), Lit(S("leasing")),
    Lit(S("to let")), Lit(S("for let")),
    Lit(<<2325, 2367, 2352, 2366, 2351, 2366>>),
    Lit(<<2349, 2366, 2337, 2364, 2375>>), Lit(<<2349, 2366, 2337, 2375>>),
    Lit(<<2733, 2750, 2721, 2759>>) >>

\* The real-estate vocabulary of the off-topic test.
realEstateWords == <<
    "property", "estate", "home", "house", "apartment", "flat", "villa",
    "plot", "land", "bhk", "residential", "commercial", "rent", "sale",
    "broker", "agent", "realty", "builder", "construction", "project",
    "township", "society", "floor", "bedroom", "bathroom", "kitchen", "hall",
    "balcony", "terrace", "parking", "amenities", "possession", "ownership",
    "lease" >>

\* detailTerms
detailTerms == Strs(<<
    "bhk", "bedroom", "bathroom", "sq ft", "square feet", "carpet area",
    "built up", "super built up", "floor", "storey", "parking", "garden",
    "balcony", "terrace", "kitchen", "hall", "living room", "dining room",
    "study room", "servant room", "pooja room", "store room", "lobby",
    "entrance", "lift", "elevator", "power backup", "water supply",
    "security", "gym", "swimming pool", "club house", "park", "playground",
    "jogging track", "tennis court", "basketball court", "badminton court",
    "squash court", "amphitheatre", "banquet hall", "party hall",
    "community hall", "shopping center", "school", "hospital", "market",
    "mall", "metro", "bus stop", "railway station", "airport" >>)

\* The transaction item without the penalty.
TransactionScoreNoPenalty(title, snippet, transactionType) ==
    IF transactionType = S("buy") /\ MatchesAny(buyPatterns, title, snippet) THEN 10
    ELSE IF transactionType = S("rent") /\ MatchesAny(rentPatterns, title, snippet) THEN 10
    ELSE 0

\* +10 for a term of the wanted transaction, -15 for a term of the other one.
TransactionScore(title, snippet, transactionType) ==
    LET buy == MatchesAny(buyPatterns, title, snippet)
        rent == MatchesAny(rentPatterns, title, snippet)
    IN IF transactionType = S("buy")
       THEN (IF buy THEN 10 ELSE 0) - (IF rent THEN 15 ELSE 0)
       ELSE IF transactionType = S("rent")
       THEN (IF rent THEN 10 ELSE 0) - (IF buy THEN 15 ELSE 0)
       ELSE 0

realEstatePattern == Words(realEstateWords)

OffTopicScore(title, snippet) ==
    IF ~test(realEstatePattern, title, TRUE) /\ ~test(realEstatePattern, snippet, TRUE)
    THEN -20 ELSE 0

DetailTermScore(title, snippet) ==
    Banded(Cardinality({k \in 1..Len(detailTerms) :
               includes(title, detailTerms[k]) \/ includes(snippet, detailTerms[k])}),
           10, 6, 3)

\* The pagemap item with 8 for an image.
PagemapScoreImage(pagemap) ==
    (IF "metatags" \in pagemap THEN 5 ELSE 0)
    + (IF "product" \in pagemap THEN 8 ELSE 0)
    + (IF "offer" \in pagemap THEN 5 ELSE 0)
    + (IF "image" \in pagemap \/ "cse_image" \in pagemap THEN 8 ELSE 0)

\* item.pagemap is modelled by the set of its keys.
PagemapScore(pagemap) ==
    (IF "metatags" \in pagemap THEN 5 ELSE 0)
    + (IF "product" \in pagemap THEN 8 ELSE 0)
    + (IF "offer" \in pagemap THEN 5 ELSE 0)
    + (IF "image" \in pagemap \/ "cse_image" \in pagemap THEN 5 ELSE 0)

CompletenessScore(title, snippet, link) ==
    IF Len(title) > 20 /\ Len(snippet) > 50 /\ Len(link) > 15 THEN 5 ELSE 0

\* The score without the five items that depend on the site and on the match
\* of the property type, the location, a price and the bedroom count.
calculateRelevanceScoreUnmatched(item, i) ==
    DetailPatternScore(toLowerCase(item.title), toLowerCase(item.snippet))
    + RecencyScore(toLowerCase(item.title), toLowerCase(item.snippet))
    + TransactionScore(toLowerCase(item.title), toLowerCase(item.snippet),
                       i.transactionType)
    + OffTopicScore(toLowerCase(item.title), toLowerCase(item.snippet))
    + DetailTermScore(toLowerCase(item.title), toLowerCase(item.snippet))
    + PagemapScore(item.pagemap)
    + CompletenessScore(toLowerCase(item.title), toLowerCase(item.snippet),
                        toLowerCase(item.link))

\* calculateRelevanceScore(item, query, location, propertyType, transactionType, bedrooms)
calculateRelevanceScore(item, i) ==
    LET title == toLowerCase(item.title)
        snippet == toLowerCase(item.snippet)
        link == toLowerCase(item.link)
    IN SiteScore(link)
       + PropertyTypeScore(title, snippet, i.propertyType)
       + LocationScore(title, snippet, i.location)
       + PriceScore(title, snippet)
       + BedroomScore(title, snippet, i.bedrooms)
       + DetailPatternScore(title, snippet)
       + RecencyScore(title, snippet)
       + TransactionScore(title, snippet, i.transactionType)
       + OffTopicScore(title, snippet)
       + DetailTermScore(title, snippet)
       + PagemapScore(item.pagemap)
       + CompletenessScore(title, snippet, link)

(***************************************************************************)
(* webSearchService.js: searchRealEstateInfo, the requests and the ranking *)
(***************************************************************************)

\* The lead record when the caller passes none: leadInfo = {}
NoLead == [preferredLocation |-> <<>>, budget |-> <<>>, propertyType |-> <<>>,
           transactionType |-> <<>>, bedrooms |-> <<>>]

\* s.split(' '): the pieces between the single spaces of s.
SplitOnBlank(s) ==
    LET blanks == SelectSeq([k \in 1..Len(s) |-> k], LAMBDA k : s[k] = 32)
        cuts == <<0>> \o blanks \o <<Len(s) + 1>>
    IN [n \in 1..(Len(blanks) + 1) |-> SubSeq(s, cuts[n] + 1, cuts[n + 1] - 1)]

\* query.split(' ').slice(0, 3).join(' ') + ' real estate'
simplifiedQuery(q) ==
    LET words == SplitOnBlank(q)
    IN join(SubSeq(words, 1, IF Len(words) < 3 THEN Len(words) ELSE 3), S(" "))
       \o S(" real estate")

\* The requests sent to the search provider: the query and the num parameter.
primaryRequest(q) == [q |-> q, num |-> 10]
fallbackRequest(q) == [q |-> simplifiedQuery(q), num |-> 5]

\* An answer of the provider: response.data, and response.data.items when it
\* is an array.
NoData == [data |-> FALSE, items |-> <<>>]
DataWith(list) == [data |-> TRUE, items |-> list]

\* results.sort((a, b) => b.relevanceScore - a.relevanceScore), unstable: an
\* element goes before the elements of equal score.
RECURSIVE InsertBeforeEqual(_, _)
InsertBeforeEqual(sorted, x) ==
    IF sorted = <<>> THEN <<x>>
    ELSE IF Head(sorted).relevanceScore > x.relevanceScore
    THEN <<Head(sorted)>> \o InsertBeforeEqual(Tail(sorted), x)
    ELSE <<x>> \o sorted

RECURSIVE sortUnstable(_)
sortUnstable(list) ==
    IF list = <<>> THEN <<>>
    ELSE InsertBeforeEqual(sortUnstable(SubSeq(list, 1, Len(list) - 1)), list[Len(list)])

\* x put into a list sorted by falling score: after the elements whose score
\* is greater or equal (the comparator is negative only for a greater score).
RECURSIVE InsertByScore(_, _)
InsertByScore(sorted, x) ==
    IF sorted = <<>> THEN <<x>>
    ELSE IF Head(sorted).relevanceScore >= x.relevanceScore
    THEN <<Head(sorted)>> \o InsertByScore(Tail(sorted), x)
    ELSE <<x>> \o sorted

\* results.sort((a, b) => b.relevanceScore - a.relevanceScore): Array.prototype.sort
\* is stable, the elements are taken in the order of the list.
RECURSIVE sortByRelevance(_)
sortByRelevance(list) ==
    IF list = <<>> THEN <<>>
    ELSE InsertByScore(sortByRelevance(SubSeq(list, 1, Len(list) - 1)), list[Len(list)])

\* The item handed to the caller: title, link and snippet, and the fields
\* taken over from the metatags and product entries of its pagemap.
enhancedItem(item) ==
    [title |-> item.title, link |-> item.link, snippet |-> item.snippet,
     details |-> item.pagemap \cap {"metatags", "product"}]

\* The item of the fallback search: title, link and snippet only.
fallbackItem(item) ==
    [title |-> item.title, link |-> item.link, snippet |-> item.snippet, details |-> {}]

TopResults == 5

\* array.slice(0, n)
Take(list, n) == SubSeq(list, 1, IF Len(list) < n THEN Len(list) ELSE n)

(***************************************************************************)
(* The hits the search provider answers with, the queries and the lead     *)
(* records of the model.                                                   *)
(***************************************************************************)

\* A listing on a premium portal, two listings of equal score on another
\* portal, and a page that is not about real estate.
HitListing ==
    [title |-> S("2 BHK flat for sale in Pune"),
     snippet |-> S("Rs 50 lakh, 900 sq ft, posted 2 days ago"),
     link |-> S("https://www.99acres.com/p1?id=7"),
     pagemap |-> {"metatags", "cse_image"}]
HitFlatsX ==
    [title |-> S("Flats in Pune"), snippet |-> S("Buy  property"),
     link |-> S("https://housing.com/x"), pagemap |-> {}]
HitFlatsY ==
    [title |-> S("Flats in Pune"), snippet |-> S("Buy  property"),
     link |-> S("https://housing.com/y"), pagemap |-> {}]
HitNews ==
    [title |-> S("Cricket scores"), snippet |-> S("Who won? Latest match news"),
     link |-> S("https://news.example.com"), pagemap |-> {}]

Hits == {HitListing, HitFlatsX, HitFlatsY}

\* The lists of at most n hits.
RECURSIVE ListsOf(_, _)
ListsOf(hits, n) ==
    IF n = 0 THEN {<<>>}
    ELSE LET shorter == ListsOf(hits, n - 1)
         IN shorter \cup {Append(list, h) : list \in shorter, h \in hits}

MaxHits == 6

\* The answers of the provider to a search.
SearchAnswers == {NoData} \cup {DataWith(list) : list \in ListsOf(Hits, MaxHits)}

SearchQueries == {S("2 bhk flat in Pune to buy"), S("office space")}
SearchLeads == {NoLead, [NoLead EXCEPT !.preferredLocation = S("Mumbai")]}

\* The answers of the provider while a message is answered.
ReplyAnswers ==
    {NoData, DataWith(<<HitNews>>), DataWith(<<HitFlatsX, HitListing, HitNews>>)}

\* The messages of the user.
Messages ==
    {JsString(S("2 bhk in Pune")), JsString(S(" flat for rent under rs 50,000 ")),
     JsString(S("thanks")), JsString(S("   ")), JsString(<<>>), JsNull}

\* The lead records of the host.
Leads ==
    {NoLead,
     [NoLead EXCEPT !.preferredLocation = S("Mumbai")],
     [NoLead EXCEPT !.budget = S("7500000"), !.propertyType = S("villa")]}

\* The texts of the AI.
Replies ==
    {S("Prices in Pune start at 50 lakh. Would you like to see more?"),
     S("Here are some flats."),
     <<>>}

\* The intents under which hits are ranked in the model, and the score of
\* every hit under each of them (calculateRelevanceScore, tabulated).
RankedIntents ==
    {extractIntent(q, l) : q \in SearchQueries, l \in SearchLeads}
    \cup {extractIntent(trim(m.s), NoLead) : m \in {v \in Messages : v.js = "string"}}

ScoreTable ==
    [h \in Hits \cup {HitNews}, i \in RankedIntents |-> calculateRelevanceScore(h, i)]

\* relevanceScore: this.calculateRelevanceScore(item, query, location, ...)
relevanceScore(item, i) == ScoreTable[item, i]

\* The items with their scores, sorted, stripped of the score and cut to the
\* first five: lines 265-308.
rankResults(list, i) ==
    LET scored == [k \in 1..Len(list) |->
                      [item |-> list[k], relevanceScore |-> relevanceScore(list[k], i)]]
        sorted == sortByRelevance(scored)
    IN Take([k \in 1..Len(sorted) |-> enhancedItem(sorted[k].item)], TopResults)

(***************************************************************************)
(* mistralService.js: formatMessageHistory (157-177) and                   *)
(* extractInfoFromHistory (180-305)                                        *)
(***************************************************************************)

\* .slice(-10): the turns of the history that are looked at.
HistoryWindow == 10

\* The format of a window two turns shorter.
formatMessageHistoryNarrow(history) ==
    LET first == IF Len(history) > HistoryWindow - 2
                 THEN Len(history) - HistoryWindow + 3 ELSE 1
    IN [k \in 1..(Len(history) - first + 1) |->
           [role |-> IF history[first + k - 1].sender = "user" THEN "user"
                     ELSE "assistant",
            content |-> history[first + k - 1].message]]

\* (messageHistory || []).slice(-10).map(msg => ({role: ..., content: ...}))
formatMessageHistory(history) ==
    LET first == IF Len(history) > HistoryWindow
                 THEN Len(history) - HistoryWindow + 1 ELSE 1
    IN [k \in 1..(Len(history) - first + 1) |->
           [role |-> IF history[first + k - 1].sender = "user" THEN "user"
                     ELSE "assistant",
            content |-> history[first + k - 1].message]]

WhatIsYour(word) ==
    Cat(<<Lit(S("what")), Alt(<<Lit(S("'s")), Lit(S(" is"))>>), Lit(S(" your " \o word))>>)
Then(first, last) == Cat(<<Lit(S(first)), Star(Dot), Lit(S(last))>>)

nameQuestionPatterns == <<
    WhatIsYour("name"),
    Lit(S("may I know your name")),
    Lit(S("could you tell me your name")),
    Lit(S("who am I speaking with")),
    Lit(<<2310, 2346, 2325, 2366, 32, 2344, 2366, 2350, 32, 2325, 2381, 2351, 2366, 32, 2361, 2376>>),
    Lit(<<2310, 2346, 2325, 2366, 32, 2344, 2366, 2350, 32, 2348, 2340, 2366, 2319, 2306>>),
    Lit(<<2340, 2369, 2350, 2330, 2375, 32, 2344, 2366, 2357, 32, 2325, 2366, 2351, 32, 2310, 2361, 2375>>),
    Lit(<<2724, 2734, 2750, 2736, 2753, 2690, 32, 2728, 2750, 2734, 32, 2742, 2753, 2690, 32, 2715, 2759>>) >>

budgetQuestionPatterns == <<
    WhatIsYour("budget"),
    Then("budget", "range"),
    Then("how much", "spend"),
    Lit(S("price range")),
    Lit(<<2310, 2346, 2325, 2366, 32, 2348, 2332, 2335, 32, 2325, 2381, 2351, 2366, 32, 2361, 2376>>),
    Lit(<<2325, 2367, 2340, 2344, 2366, 32, 2326, 2352, 2381, 2330, 32, 2325, 2352, 32, 2360, 2325, 2340, 2375, 32, 2361, 2376, 2306>>),
    Lit(<<2340, 2369, 2350, 2330, 2375, 32, 2348, 2332, 2375, 2335, 32, 2325, 2367, 2340, 2368, 32, 2310, 2361, 2375>>),
    Lit(<<2724, 2734, 2750, 2736, 2753, 2690, 32, 2732, 2716, 2759, 2719, 32, 2742, 2753, 2690, 32, 2715, 2759>>) >>

locationQuestionPatterns == <<
    Lit(S("preferred location")),
    Lit(S("which area")),
    Then("where", "looking"),
    Lit(S("location preference")),
    Lit(<<2325, 2380, 2344, 32, 2360, 2366, 32, 2311, 2354, 2366, 2325, 2366>>),
    Lit(<<2325, 2361, 2366, 2306, 32, 2346, 2352, 32, 2330, 2366, 2361, 2340, 2375, 32, 2361, 2376, 2306>>),
    Lit(<<2325, 2379, 2339, 2340, 2381, 2351, 2366, 32, 2349, 2366, 2327, 2366, 2340>>),
    Lit(<<2709, 2765, 2735, 2750, 2690, 32, 2742, 2763, 2727, 2752, 32, 2736, 2745, 2765, 2735, 2750, 32, 2715, 2763>>) >>

propertyTypeQuestionPatterns == <<
    Lit(S("what type of property")),
    Cat(<<Lit(S("looking for a ")), Words(<<"house", "apartment", "flat", "condo">>)>>),
    Lit(S("property type")),
    Lit(<<2325, 2367, 2360, 32, 2346, 2381, 2352, 2325, 2366, 2352, 32, 2325, 2368, 32, 2360, 2306, 2346, 2340, 2381, 2340, 2367>>),
    Lit(<<2325, 2380, 2344, 32, 2360, 2366, 32, 2346, 2381, 2352, 2377, 2346, 2352, 2381, 2335, 2368, 32, 2335, 2366, 2311, 2346>>),
    Lit(<<2325, 2379, 2339, 2340, 2381, 2351, 2366, 32, 2346, 2381, 2352, 2325, 2366, 2352, 2330, 2368, 32, 2350, 2366, 2354, 2350, 2340, 2381, 2340, 2366>>),
    Lit(<<2709, 2735, 2750, 32, 2730, 2765, 2736, 2709, 2750, 2736, 2728, 2752, 32, 2744, 2690, 2730, 2724, 2765, 2724, 2751>>) >>

SpaceRanges == {<<9, 13>>, <<32, 32>>, <<160, 160>>, <<8232, 8233>>, <<65279, 65279>>}
NameText == Plus(Class(WordRanges \cup SpaceRanges))                 \* [\w\s]+
AmountText == Plus(Class({<<48, 57>>, One(",")}))                    \* [\d,]+
PlaceText == Plus(Class({<<97, 122>>, One(",")} \cup SpaceRanges))   \* [a-z\s,]+

nameResponsePatterns == <<
    Pattern(Lit(S("my name is ")), NameText, Empty),
    Pattern(Lit(S("I am ")), NameText, Empty),
    Pattern(Lit(S("I'm ")), NameText, Empty),
    Pattern(Lit(<<2350, 2375, 2352, 2366, 32, 2344, 2366, 2350, 32>>), NameText, Lit(<<32, 2361, 2376>>)),
    Pattern(Lit(<<2350, 2366, 2333, 2375, 32, 2344, 2366, 2357, 32>>), NameText, Lit(<<32, 2310, 2361, 2375>>)),
    Pattern(Lit(<<2734, 2750, 2736, 2753, 2690, 32, 2728, 2750, 2734, 32>>), NameText, Lit(<<32, 2715, 2759>>)) >>

budgetResponsePatterns == <<
    Pattern(Lit(S("budget is ")), AmountText, Empty),
    Pattern(Cat(<<Lit(S("looking")), Star(Dot), Lit(S(" around "))>>), AmountText, Empty),
    Pattern(Empty, AmountText, Cat(<<Star(Dot), Lit(S("budget"))>>)),
    Pattern(Lit(<<2350, 2375, 2352, 2366, 32, 2348, 2332, 2335, 32>>), AmountText, Empty),
    Pattern(Lit(<<2350, 2366, 2333, 2375, 32, 2348, 2332, 2375, 2335, 32>>), AmountText, Empty),
    Pattern(Lit(<<2734, 2750, 2736, 2753, 2690, 32, 2732, 2716, 2759, 2719, 32>>), AmountText, Empty) >>

\* The propertyTypes of the history scan.
mentionedTypes ==
    Strs(<<"apartment", "house", "condo", "villa", "flat", "studio", "penthouse",
           "duplex">>)

\* /(?:location|area|place|interested in) ([a-z\s,]+)/i
locationResponsePattern ==
    Pattern(Cat(<<Words(<<"location", "area", "place", "interested in">>), Lit(S(" "))>>),
            PlaceText, Empty)

\* extractedInfo as extractInfoFromHistory creates it: providedInfo is {},
\* each of its slots undefined.
emptyDigest ==
    [askedAboutName |-> FALSE, askedAboutBudget |-> FALSE,
     askedAboutLocation |-> FALSE, askedAboutPropertyType |-> FALSE,
     providedInfo |-> [name |-> JsUndefined, budget |-> JsUndefined,
                       propertyType |-> JsUndefined,
                       preferredLocation |-> JsUndefined]]

\* The flag set again by every turn, instead of being raised only.
askedInTurn(flag, patterns, content) == AnyPatternMatches(patterns, content)

\* patterns.forEach(pattern => { if (pattern.test(content)) flag = true })
asked(flag, patterns, content) == flag \/ AnyPatternMatches(patterns, content)

\* Lines 255-271: a turn of the assistant.
scanAssistant(info, content) ==
    [info EXCEPT
        !.askedAboutName = asked(@, nameQuestionPatterns, content),
        !.askedAboutBudget = asked(@, budgetQuestionPatterns, content),
        !.askedAboutLocation = asked(@, locationQuestionPatterns, content),
        !.askedAboutPropertyType = asked(@, propertyTypeQuestionPatterns, content)]

\* The slot kept as it is once it has a value.
keptOr(m, value) ==
    IF value.js # "undefined" THEN value
    ELSE IF m.found THEN JsString(trim(m.group)) ELSE value

\* if (match && match[1]) slot = match[1].trim()
trimmedOr(m, value) == IF m.found THEN JsString(trim(m.group)) ELSE value

\* patterns.forEach(...) from pattern k on: the last pattern with a capture
\* sets the slot.
RECURSIVE lastTrimmed(_, _, _, _)
lastTrimmed(patterns, content, k, value) ==
    IF k > Len(patterns) THEN value
    ELSE lastTrimmed(patterns, content, k + 1,
                     trimmedOr(Group1(patterns[k], content), value))

includedOr(type, lower, value) == IF includes(lower, type) THEN JsString(type) ELSE value

\* propertyTypes.forEach(...) from type k on: the last type the lower-cased
\* turn holds sets the slot.
RECURSIVE lastIncluded(_, _, _, _)
lastIncluded(types, lower, k, value) ==
    IF k > Len(types) THEN value
    ELSE lastIncluded(types, lower, k + 1, includedOr(types[k], lower, value))

\* Lines 274-300: a turn of the user.
scanUser(info, content) ==
    [info EXCEPT
        !.providedInfo =
            [name |-> lastTrimmed(nameResponsePatterns, content, 1, @.name),
             budget |-> lastTrimmed(budgetResponsePatterns, content, 1, @.budget),
             propertyType |->
                 lastIncluded(mentionedTypes, toLowerCase(content), 1, @.propertyType),
             preferredLocation |->
                 trimmedOr(Group1(locationResponsePattern, content),
                           @.preferredLocation)]]

\* The body of formattedHistory.forEach(msg => { ... })
scanTurn(info, msg) ==
    IF msg.role = "assistant" THEN scanAssistant(info, msg.content)
    ELSE IF msg.role = "user" THEN scanUser(info, msg.content)
    ELSE info

\* The digest after the turns k.. of the history, from the digest info.
RECURSIVE scanFrom(_, _, _)
scanFrom(info, history, k) ==
    IF k > Len(history) THEN info
    ELSE scanFrom(scanTurn(info, history[k]), history, k + 1)

\* extractInfoFromHistory(formattedHistory)
extractInfoFromHistory(history) == scanFrom(emptyDigest, history, 1)

(***************************************************************************)

(* mistralService.js: isConversationEnding (307-393)                       *)
(***************************************************************************)

\* shortEndingPhrases
shortEndingPhrases == <<
    S("thanks"), S("thank you"), S("ok"), S("okay"), S("bye"), S("goodbye"),
    S("got it"), <<2343, 2344, 2381, 2351, 2357, 2366, 2342>>,
    <<2358, 2369, 2325, 2381, 2352, 2367, 2351, 2366>>,
    <<2336, 2368, 2325, 32, 2361, 2376>>, <<2309, 2330, 2381, 2331, 2366>>,
    <<2348, 2366, 2351>>, <<2343, 2344, 2381, 2351, 2357, 2366, 2342>>,
    <<2310, 2349, 2366, 2352>>, <<2336, 2368, 2325, 32, 2310, 2361, 2375>>,
    <<2348, 2352, 2306>>, <<2694, 2733, 2750, 2736>>,
    <<2727, 2728, 2765, 2735, 2741, 2750, 2726>>,
    <<2720, 2752, 2709, 32, 2715, 2759>>, <<2744, 2750, 2736, 2753, 2690>> >>

\* The phrases of each pattern of endingPhrases, pattern by pattern.
endingPhraseLists == <<
    <<
        S("thank you"), S("thanks"), S("thank u") >>,
    <<
        S("goodbye"), S("bye"), S("see you"), S("farewell") >>,
    <<
        S("that's all"), S("that is all"), S("no more"), S("finished") >>,
    <<
        S("no more questions") >>,
    <<
        S("got it"), S("understood"), S("i understand") >>,
    <<
        S("ok"), S("okay"), S("fine"), S("great") >>,
    <<
        S("that's helpful"), S("that helps"), S("clear now") >>,
    <<
        S("appreciate"), S("appreciate it"), S("appreciate your") >>,
    <<
        <<2343, 2344, 2381, 2351, 2357, 2366, 2342>>,
        <<2358, 2369, 2325, 2381, 2352, 2367, 2351, 2366>>,
        <<2341, 2376, 2306, 2325, 2381, 2360>>, <<2310, 2349, 2366, 2352>> >>,
    <<
        <<2309, 2354, 2357, 2367, 2342, 2366>>, <<2348, 2366, 2351>>,
        <<2327, 2369, 2337, 32, 2348, 2366, 2351>>,
        <<2347, 2367, 2352, 32, 2350, 2367, 2354, 2375, 2306, 2327, 2375>> >>,
    <<
        <<2348, 2360, 32, 2311, 2340, 2344, 2366, 32, 2361, 2368>>,
        <<2351, 2361, 2368, 32, 2360, 2348, 32, 2361, 2376>>,
        <<2361, 2379, 32, 2327, 2351, 2366>> >>,
    <<
        <<2325, 2379, 2312, 32, 2324, 2352, 32, 2360, 2357, 2366, 2354, 32, 2344, 2361, 2368, 2306>>,
        <<2324, 2352, 32, 2325, 2369, 2331, 32, 2344, 2361, 2368, 2306>> >>,
    <<
        <<2360, 2350, 2333, 32, 2327, 2351, 2366>>,
        <<2336, 2368, 2325, 32, 2361, 2376>>,
        <<2360, 2350, 2333, 32, 2350, 2375, 2306, 32, 2310, 2351, 2366>> >>,
    <<
        <<2323, 2325, 2375>>, <<2309, 2330, 2381, 2331, 2366>>,
        <<2336, 2368, 2325>>,
        <<2348, 2361, 2369, 2340, 32, 2309, 2330, 2381, 2331, 2366>> >>,
    <<
        <<2350, 2342, 2342, 32, 2350, 2367, 2354, 2368>>,
        <<2360, 2381, 2346, 2359, 2381, 2335, 32, 2361, 2376>>,
        <<2360, 2350, 2333, 32, 2350, 2375, 2306, 32, 2310, 32, 2327, 2351, 2366>> >>,
    <<
        <<2343, 2344, 2381, 2351, 2357, 2366, 2342>>,
        <<2310, 2349, 2366, 2352>>, <<2341, 2305, 2325, 2381, 2351, 2370>> >>,
    <<
        <<2344, 2367, 2352, 2379, 2346>>, <<2348, 2366, 2351>>,
        <<2346, 2369, 2344, 2381, 2361, 2366, 32, 2349, 2375, 2335, 2370>> >>,
    <<
        <<2348, 2360, 32, 2319, 2357, 2338, 2375, 2330>>,
        <<2311, 2340, 2325, 2375, 2330>>, <<2333, 2366, 2354, 2375>> >>,
    <<
        <<2310, 2339, 2326, 2368, 32, 2346, 2381, 2352, 2358, 2381, 2344, 32, 2344, 2366, 2361, 2368, 2340>> >>,
    <<
        <<2360, 2350, 2332, 2354, 2375>>, <<2348, 2352, 2379, 2348, 2352>>,
        <<2336, 2368, 2325, 32, 2310, 2361, 2375>> >>,
    <<
        <<2323, 2325, 2375>>, <<2331, 2366, 2344>>, <<2348, 2352, 2306>> >>,
    <<
        <<2350, 2342, 2340, 32, 2333, 2366, 2354, 2368>>,
        <<2360, 2381, 2346, 2359, 2381, 2335, 32, 2310, 2361, 2375>> >>,
    <<
        <<2694, 2733, 2750, 2736>>,
        <<2727, 2728, 2765, 2735, 2741, 2750, 2726>>,
        <<2725, 2759, 2690, 2709, 2765, 2735, 2753>> >>,
    <<
        <<2694, 2741, 2716, 2763>>, <<2732, 2750, 2735>>,
        <<2731, 2736, 2752, 32, 2734, 2739, 2752, 2742, 2753, 2690>> >>,
    <<
        <<2732, 2744, 32, 2694, 2719, 2738, 2753, 2690, 32, 2716>>,
        <<2730, 2754, 2736, 2753, 2690, 32, 2725, 2735, 2753, 2690>> >>,
    <<
        <<2741, 2727, 2753, 32, 2730, 2765, 2736, 2742, 2765, 2728, 2763, 32, 2728, 2725, 2752>> >>,
    <<
        <<2744, 2734, 2716, 2750, 2735, 2753, 2690>>,
        <<2732, 2736, 2750, 2732, 2736>>, <<2720, 2752, 2709, 32, 2715, 2759>> >>,
    <<
        <<2707, 2709, 2759>>, <<2744, 2750, 2736, 2753, 2690>>,
        <<2720, 2752, 2709>> >>,
    <<
        <<2734, 2726, 2726, 32, 2734, 2739, 2752>>,
        <<2744, 2765, 2730, 2743, 2765, 2719, 32, 2715, 2759>> >>,
    <<
        <<2471, 2472, 2509, 2479, 2476, 2494, 2470>>,
        <<2438, 2474, 2472, 2494, 2453, 2503, 32, 2471, 2472, 2509, 2479, 2476, 2494, 2470>> >>,
    <<
        <<2476, 2495, 2470, 2494, 2479, 2492>>,
        <<2475, 2495, 2480, 2503, 32, 2470, 2503, 2454, 2494, 32, 2489, 2476, 2503>> >>,
    <<
        <<2447, 2463, 2494, 2439, 32, 2488, 2476>>, <<2486, 2503, 2487>> >>,
    <<
        <<2438, 2480, 32, 2453, 2507, 2472, 32, 2474, 2509, 2480, 2486, 2509, 2472, 32, 2472, 2503, 2439>> >>,
    <<
        <<2476, 2497, 2461, 2503, 2459, 2495>>,
        <<2464, 2495, 2453, 32, 2438, 2459, 2503>> >> >>

\* endingPhrases: each pattern is an alternation of phrases, matched with
\* the i flag.
endingPhrases ==
    [k \in 1..Len(endingPhraseLists) |-> Literals(endingPhraseLists[k])]

\* The classification by the closing phrases alone, without the test of a
\* short message that holds no question mark.
isConversationEndingByPhrase(v) ==
    IF ~Truthy(v) \/ TypeOf(v) # "string" THEN FALSE
    ELSE \/ /\ Len(SplitOnSpace(toLowerCase(trim(v.s)))) <= 2
            /\ \E k \in 1..Len(shortEndingPhrases) :
                  includes(toLowerCase(trim(v.s)), shortEndingPhrases[k])
         \/ \E k \in 1..Len(endingPhrases) :
               test(endingPhrases[k], toLowerCase(trim(v.s)), TRUE)

\* isConversationEnding(message)
isConversationEnding(v) ==
    IF ~Truthy(v) \/ TypeOf(v) # "string" THEN FALSE
    ELSE LET normalizedMessage == toLowerCase(trim(v.s))
             isShortEnding ==
                 /\ Len(SplitOnSpace(normalizedMessage)) <= 2
                 /\ \E k \in 1..Len(shortEndingPhrases) :
                       includes(normalizedMessage, shortEndingPhrases[k])
             isEnding ==
                 \E k \in 1..Len(endingPhrases) :
                     test(endingPhrases[k], normalizedMessage, TRUE)
             isShortNonQuestion ==
                 Len(normalizedMessage) < 15 /\ ~includes(normalizedMessage, S("?"))
         IN isShortEnding \/ isEnding \/ isShortNonQuestion

(***************************************************************************)
(* mistralService.js: appendSearchResults (517-642)                        *)
(***************************************************************************)

\* '\n\n### <chart emoji> Latest Real Estate Information ###\n' (the emoji
\* U+1F4CA is the surrogate pair D83D DCCA).
summaryHeader ==
    <<10, 10>> \o S("### ") \o <<55357, 56522>>
    \o S(" Latest Real Estate Information ###") \o <<10>>

\* The link labels: 'View Source' for three results or more, the Hindi label
\* for fewer.
viewSource == S("View Source")
sourceLabel == <<2360, 2381, 2352, 2379, 2340, 32, 2342, 2375, 2326, 2375, 2306>>

\* r.title.replace(/\s+/g, ' ').trim()
cleanText(s) == trim(replaceAll(s, Plus(Space), S(" "), FALSE))

\* `\n**${i + 1}. ${cleanTitle}**\n${cleanSnippet}\n` and `[label](${r.link})\n`
summaryEntry(r, n, label) ==
    <<10>> \o S("**") \o <<48 + n>> \o S(". ") \o cleanText(r.title) \o S("**") \o <<10>>
    \o cleanText(r.snippet) \o <<10>>
    \o S("[") \o label \o S("](") \o r.link \o S(")") \o <<10>>

\* The digest of the results: the first three of three or more, else all.
formatSummary(list) ==
    LET shown == IF Len(list) >= 3 THEN 3 ELSE Len(list)
        label == IF Len(list) >= 3 THEN viewSource ELSE sourceLabel
    IN summaryHeader
       \o join([n \in 1..shown |-> summaryEntry(list[n], n, label)], <<>>)

NotStop == NotClass({One("."), One("!"), One("?")})          \* [^.!?]

\* /\s*([^.!?]\s*\?\s*)+$/
trailingQuestions ==
    Cat(<<Star(Space),
          Plus(Cat(<<NotStop, Star(Space), Lit(S("?")), Star(Space)>>)),
          Eol>>)

\* /([0-9]\.|•|\*|-)\s*([^\n.]+\?)\s*/g  (the bullet is U+2022)
listedQuestion ==
    Cat(<<Alt(<<Cat(<<Digit, Lit(S("."))>>), Lit(<<8226>>), Lit(S("*")), Lit(S("-"))>>),
          Star(Space),
          Plus(NotClass({<<10, 10>>, One(".")})), Lit(S("?")),
          Star(Space)>>)

\* /\s+([A-Z][^.!?]+\?)\s+/g
standaloneQuestion ==
    Cat(<<Plus(Space), Class({<<65, 90>>}), Plus(NotStop), Lit(S("?")), Plus(Space)>>)

\* questionPatterns: the offers of help that are removed, with their flags.
questionPatterns == <<
    [ci |-> TRUE,
     re |-> Cat(<<Lit(S("would you like ")),
                   Words(<<"to", "me to">>),
                   Lit(S(" ")),
                   Plus(NotClass({One("."), One("?"), One("!")})),
                   Opt(Lit(S("?")))>>)],
    [ci |-> TRUE,
     re |-> Cat(<<Lit(S("do you want ")),
                   Words(<<"to", "me to">>),
                   Lit(S(" ")),
                   Plus(NotClass({One("."), One("?"), One("!")})),
                   Opt(Lit(S("?")))>>)],
    [ci |-> TRUE,
     re |-> Cat(<<Lit(S("can I help you ")),
                   Plus(NotClass({One("."), One("?"), One("!")})),
                   Opt(Lit(S("?")))>>)],
    [ci |-> TRUE,
     re |-> Cat(<<Lit(S("are you interested in ")),
                   Plus(NotClass({One("."), One("?"), One("!")})),
                   Opt(Lit(S("?")))>>)],
    [ci |-> TRUE,
     re |-> Cat(<<Lit(S("shall we ")),
                   Plus(NotClass({One("."), One("?"), One("!")})),
                   Opt(Lit(S("?")))>>)],
    [ci |-> TRUE,
     re |-> Cat(<<Lit(S("how about ")),
                   Plus(NotClass({One("."), One("?"), One("!")})),
                   Opt(Lit(S("?")))>>)],
    [ci |-> TRUE,
     re |-> Cat(<<Lit(S("what ")),
                   Words(<<"else", "other", "more">>),
                   Lit(S(" ")),
                   Plus(NotClass({One("."), One("?"), One("!")})),
                   Opt(Lit(S("?")))>>)],
    [ci |-> TRUE,
     re |-> Cat(<<Lit(S("is there anything else ")),
                   Plus(NotClass({One("."), One("?"), One("!")})),
                   Opt(Lit(S("?")))>>)],
    [ci |-> FALSE,
     re |-> Cat(<<Lit(<<2325, 2381, 2351, 2366, 32, 2310, 2346, 32>>),
                   Plus(Dot),
                   Lit(<<32, 2348, 2340, 2366, 2344, 2366, 32, 2330, 2366, 2361, 2375, 2306, 2327, 2375>>),
                   Opt(Lit(S("?")))>>)],
    [ci |-> FALSE,
     re |-> Cat(<<Lit(<<2310, 2346, 32>>),
                   Plus(Dot),
                   Lit(<<32, 2325, 2375, 32, 2348, 2366, 2352, 2375, 32, 2350, 2375, 2306, 32, 2325, 2381, 2351, 2366, 32, 2360, 2379, 2330, 2340, 2375, 32, 2361, 2376, 2306>>),
                   Opt(Lit(S("?")))>>)],
    [ci |-> FALSE,
     re |-> Cat(<<Lit(<<2325, 2381, 2351, 2366, 32, 2310, 2346, 2325, 2379, 32>>),
                   Plus(Dot),
                   Lit(<<32, 2330, 2366, 2361, 2367, 2319>>),
                   Opt(Lit(S("?")))>>)],
    [ci |-> FALSE,
     re |-> Cat(<<Lit(<<2325, 2381, 2351, 2366, 32, 2350, 2376, 2306, 32, 2310, 2346, 2325, 2368, 32, 2324, 2352, 32, 2360, 2361, 2366, 2351, 2340, 2366, 32, 2325, 2352, 32, 2360, 2325, 2340, 2366, 32, 2361, 2370, 2305>>),
                   Opt(Lit(S("?")))>>)],
    [ci |-> FALSE,
     re |-> Cat(<<Lit(<<2325, 2381, 2351, 2366, 32, 2310, 2346, 32>>),
                   Plus(Dot),
                   Lit(<<32, 2332, 2366, 2344, 2344, 2366, 32, 2330, 2366, 2361, 2340, 2375, 32, 2361, 2376, 2306>>),
                   Opt(Lit(S("?")))>>)],
    [ci |-> FALSE,
     re |-> Cat(<<Lit(<<2325, 2381, 2351, 2366, 32, 2310, 2346, 2325, 2375, 32, 2346, 2366, 2360, 32>>),
                   Plus(Dot),
                   Lit(<<32, 2361, 2376>>),
                   Opt(Lit(S("?")))>>)],
    [ci |-> FALSE,
     re |-> Cat(<<Lit(<<2350, 2376, 2306, 32, 2310, 2346, 2325, 2368, 32, 2325, 2376, 2360, 2375, 32, 2360, 2361, 2366, 2351, 2340, 2366, 32, 2325, 2352, 32, 2360, 2325, 2340, 2366, 32, 2361, 2370, 2305>>),
                   Opt(Lit(S("?")))>>)],
    [ci |-> FALSE,
     re |-> Cat(<<Lit(<<2310, 2346, 2325, 2379, 32, 2324, 2352, 32, 2325, 2381, 2351, 2366, 32, 2332, 2366, 2344, 2325, 2366, 2352, 2368, 32, 2330, 2366, 2361, 2367, 2319>>),
                   Opt(Lit(S("?")))>>)],
    [ci |-> FALSE,
     re |-> Cat(<<Lit(<<2325, 2381, 2351, 2366, 32, 2310, 2346, 32>>),
                   Plus(Dot),
                   Lit(<<32, 2326, 2379, 2332, 32, 2352, 2361, 2375, 32, 2361, 2376, 2306>>),
                   Opt(Lit(S("?")))>>)],
    [ci |-> FALSE,
     re |-> Cat(<<Lit(<<2325, 2381, 2351, 2366, 32, 2310, 2346, 32>>),
                   Plus(Dot),
                   Lit(<<32, 2346, 2360, 2306, 2342, 32, 2325, 2352, 2375, 2306, 2327, 2375>>),
                   Opt(Lit(S("?")))>>)],
    [ci |-> FALSE,
     re |-> Cat(<<Lit(<<2340, 2369, 2350, 2381, 2361, 2366, 2354, 2366, 32>>),
                   Plus(Dot),
                   Lit(<<32, 2310, 2357, 2337, 2375, 2354, 32, 2325, 2366>>),
                   Opt(Lit(S("?")))>>)],
    [ci |-> FALSE,
     re |-> Cat(<<Lit(<<2350, 2368, 32, 2340, 2369, 2350, 2381, 2361, 2366, 2354, 2366, 32>>),
                   Plus(Dot),
                   Lit(<<32, 2350, 2342, 2340, 32, 2325, 2352, 2370, 32, 2358, 2325, 2340, 2379, 32, 2325, 2366>>),
                   Opt(Lit(S("?")))>>)],
    [ci |-> FALSE,
     re |-> Cat(<<Lit(<<2340, 2369, 2350, 2381, 2361, 2366, 2354, 2366, 32>>),
                   Plus(Dot),
                   Lit(<<32, 2361, 2357, 2375, 32, 2310, 2361, 2375, 32, 2325, 2366>>),
                   Opt(Lit(S("?")))>>)],
    [ci |-> FALSE,
     re |-> Cat(<<Lit(<<2742, 2753, 2690, 32, 2724, 2734, 2759, 32>>),
                   Plus(Dot),
                   Lit(<<32, 2709, 2736, 2741, 2750, 32, 2734, 2750, 2690, 2711, 2763, 32, 2715, 2763>>),
                   Opt(Lit(S("?")))>>)],
    [ci |-> FALSE,
     re |-> Cat(<<Lit(<<2745, 2753, 2690, 32, 2724, 2734, 2728, 2759, 32>>),
                   Plus(Dot),
                   Lit(<<32, 2734, 2726, 2726, 32, 2709, 2736, 2752, 32, 2742, 2709, 2753, 2690>>),
                   Opt(Lit(S("?")))>>)],
    [ci |-> FALSE,
     re |-> Cat(<<Lit(<<2724, 2734, 2728, 2759, 32>>),
                   Plus(Dot),
                   Lit(<<32, 2716, 2763, 2696, 2703, 32, 2715, 2759>>),
                   Opt(Lit(S("?")))>>)] >>

\* cleanedResponse.replace(pattern, '')
removePattern(s, pattern) == replaceAll(s, pattern.re, <<>>, pattern.ci)

\* patterns.forEach(pattern => { cleanedResponse = cleanedResponse.replace(pattern, '') }),
\* from the k-th pattern on (nothing is left to remove from an empty text).
RECURSIVE removePatterns(_, _, _)
removePatterns(s, patterns, k) ==
    IF k > Len(patterns) \/ s = <<>> THEN s
    ELSE removePatterns(removePattern(s, patterns[k]), patterns, k + 1)

removeQuestionPatterns(s, k) == removePatterns(s, questionPatterns, k)

\* The question marks left in place.
questionsKept(s) == s

\* cleanedResponse.replace(/\?/g, '.')
questionsToStatements(s) == replaceAll(s, Lit(S("?")), S("."), FALSE)

\* /thank you|thanks|pleasure|happy to help|see you/i
closingPattern == Words(<<"thank you", "thanks", "pleasure", "happy to help", "see you">>)

closingLine ==
    <<10, 10>> \o S("I am pleased to assist you. If you have any other questions in the future, please feel free to ask.")

\* The closing line, unless a closing phrase is there.
withClosing(s) == IF test(closingPattern, s, TRUE) THEN s ELSE s \o closingLine

\* if (isEndingConversation) { ... }: the patterns once more, and the closing
\* line unless a closing phrase is there.
politeClosing(s, isEnding) ==
    IF ~isEnding THEN s ELSE withClosing(removeQuestionPatterns(s, 1))

\* /\s*\.[^.]{1,20}\./g
shortFragment ==
    Cat(<<Star(Space), Lit(S(".")), Rep(NotClass({One(".")}), 1, 20), Lit(S("."))>>)

\* cleanedResponse.replace(/\s*([^.!?]\s*\?\s*)+$/, '.')
stripTrailingQuestions(s) == replaceFirst(s, trailingQuestions, S("."), FALSE)

\* cleanedResponse.replace(/([0-9]\.|•|\*|-)\s*([^\n.]+\?)\s*/g, '')
stripListedQuestions(s) == replaceAll(s, listedQuestion, <<>>, FALSE)

\* cleanedResponse.replace(/\s+([A-Z][^.!?]+\?)\s+/g, '. ')
stripStandaloneQuestions(s) == replaceAll(s, standaloneQuestion, S(". "), FALSE)

\* cleanedResponse.replace(/\n{3,}/g, '\n\n')
collapseNewlines(s) == replaceAll(s, Rep(Class({<<10, 10>>}), 3, Inf), <<10, 10>>, FALSE)

\* cleanedResponse.replace(/\s{2,}/g, ' ').trim()
collapseSpaces(s) == trim(replaceAll(s, Rep(Space, 2, Inf), S(" "), FALSE))

\* cleanedResponse.replace(/\s*\.[^.]{1,20}\./g, '.')
dropShortFragments(s) == replaceAll(s, shortFragment, S("."), FALSE)

\* The cleaning of the AI text, lines 559-632, each step on the text the
\* step before it left.
tidyResponse(ai, isEnding) ==
    collapseSpaces(
      collapseNewlines(
        politeClosing(
          questionsToStatements(
            removeQuestionPatterns(
              stripStandaloneQuestions(
                stripListedQuestions(
                  stripTrailingQuestions(ai))), 1)),
          isEnding)))

\* The cleaned text, line 635 included.
cleanResponse(ai, isEnding) == dropShortFragments(tidyResponse(ai, isEnding))

\* appendSearchResults without the early return for an empty list.
appendSearchResultsAlways(ai, list, message) ==
    cleanResponse(ai, isConversationEnding(message))
    \o formatSummary(list)

\* appendSearchResults(aiResponse, searchResults, userMessage)
appendSearchResults(ai, list, message) ==
    IF list = <<>> THEN ai
    ELSE cleanResponse(ai, isConversationEnding(message))
         \o formatSummary(list)

(***************************************************************************)
(* The inputs of detectLanguage: texts put together from at most MaxSegs   *)
(* segments (a run of three letters of each script, single letters, a      *)
(* Hindi and a Marathi function word, blanks, Latin text), and the values  *)
(* that are not strings.                                                   *)
(***************************************************************************)
MaxSegs == 2

ScriptBlocks == <<Devanagari, Gujarati, Bengali, Tamil, Telugu, Kannada,
                  Malayalam, Gurmukhi, Arabic>>
ScriptTags == <<"hi", "gu", "bn", "ta", "te", "kn", "ml", "pa", "ur">>

\* A code point of the block (the letter ka of the Indic scripts).
Letter(block) == block[1] + 21

LangSegments ==
    {<<Letter(ScriptBlocks[k]), Letter(ScriptBlocks[k]), Letter(ScriptBlocks[k])>> :
        k \in 1..Len(ScriptBlocks)}
    \cup {<<Letter(Devanagari)>>, <<Letter(Gujarati)>>, <<Letter(Tamil)>>}
    \cup {<<32>>, <<10>>, S("ok"), HindiKeywords[7], MarathiKeywords[8]}

RECURSIVE TextsOf(_, _)
TextsOf(segments, n) ==
    IF n = 0 THEN {<<>>}
    ELSE LET shorter == TextsOf(segments, n - 1)
         IN shorter \cup {a \o b : a \in shorter, b \in segments}

LangInputs ==
    {JsString(s) : s \in TextsOf(LangSegments, MaxSegs)}
    \cup {JsNull, JsUndefined, JsObject, JsNumber(0), JsNumber(5)}

(***************************************************************************)
(* The operations.  Each specification below starts one operation on the   *)
(* inputs of its Init and leaves the variables of the others alone.        *)
(***************************************************************************)
langVars == <<text, langCode>>
intentVars == <<query, leadInfo, intent, enhancedQuery, enhancedAgain>>
providerVars == <<configured, requests, response, results>>
replyVars == <<hostLead, userMessage, handled, apiKey>>
normVars == <<aiResponse, searchResults, finalResponse, finalAgain,
             cleanedResponse>>
historyVars == <<messageHistory, formattedHistory, scanned, extractedInfo>>
chatVars == <<ending, enhancedLeadInfo, historyVars>>
scoreVars == <<candidates, scores>>

NoLanguage == text = None /\ langCode = None
NoIntent ==
    /\ query = None /\ leadInfo = None /\ intent = None
    /\ enhancedQuery = None /\ enhancedAgain = None
NoSearch == requests = <<>> /\ response = None /\ results = None
NoReply == hostLead = None /\ userMessage = None /\ handled = 0 /\ apiKey = TRUE
NoHistory ==
    /\ messageHistory = None /\ formattedHistory = None
    /\ scanned = None /\ extractedInfo = None
NoScore == candidates = None /\ scores = None
NoChat == ending = None /\ enhancedLeadInfo = None /\ NoHistory
NoText ==
    /\ aiResponse = None /\ searchResults = None
    /\ finalResponse = None /\ finalAgain = None /\ cleanedResponse = None

(***************************************************************************)
(* languageService.detectLanguage                                          *)
(***************************************************************************)
InitLang ==
    /\ pc = "call"
    /\ text \in LangInputs
    /\ langCode = None
    /\ configured = TRUE
    /\ NoIntent /\ NoSearch /\ NoReply /\ NoChat /\ NoScore /\ NoText

\* languageService.detectLanguage(text)
DetectLanguage ==
    /\ pc = "call"
    /\ langCode' = detectLanguage(text)
    /\ pc' = "done"
    /\ UNCHANGED <<text, intentVars, providerVars, replyVars, chatVars, scoreVars, normVars>>

NextLang == DetectLanguage

SpecLang == InitLang /\ [][NextLang]_vars

(***************************************************************************)
(* The intent extraction and the query enhancement of searchRealEstateInfo *)
(* on their own: queries of at most MaxWords phrases, and lead records     *)
(* with each of the known slots.                                           *)
(***************************************************************************)
MaxWords == 2

Phrases ==
    {S("2 bhk"), S("in Pune"), S("flat"), S("to buy"), S("Rent"),
     S("under rs 50,00,000"), S("Delhi property")}

\* Queries with the number of bedrooms in words, and with a comma after the
\* place.
WordedQueries ==
    {S("Two bedroom"), S("five bhk flat"), S("double bhk"), S("single bed to rent"),
     S("triple bedroom"), S("flats in Pune, "), S("near Baner, Pune for sale")}

RECURSIVE QueriesOf(_)
QueriesOf(n) ==
    IF n = 0 THEN {<<>>}
    ELSE LET shorter == QueriesOf(n - 1)
         IN shorter \cup {IF q = <<>> THEN p ELSE q \o S(" ") \o p :
                             q \in shorter, p \in Phrases}

IntentQueries == QueriesOf(MaxWords) \cup WordedQueries

IntentLeads ==
    {NoLead,
     [NoLead EXCEPT !.preferredLocation = S("Mumbai")],
     [NoLead EXCEPT !.budget = S("7500000")],
     [NoLead EXCEPT !.propertyType = S("villa")],
     [NoLead EXCEPT !.transactionType = S("rent"), !.bedrooms = S("3")],
     [preferredLocation |-> S("Navi Mumbai"), budget |-> S("90 lakh"),
      propertyType |-> S("Penthouse"), transactionType |-> S("buy"),
      bedrooms |-> S("4")]}

InitIntent ==
    /\ pc = "extract"
    /\ query \in IntentQueries
    /\ leadInfo \in IntentLeads
    /\ intent = None /\ enhancedQuery = None /\ enhancedAgain = None
    /\ configured = TRUE
    /\ NoLanguage /\ NoSearch /\ NoReply /\ NoChat /\ NoScore /\ NoText

\* Lines 59-177: the five slots.
ExtractIntent ==
    /\ pc = "extract"
    /\ intent' = extractIntent(query, leadInfo)
    /\ pc' = "enhance"
    /\ UNCHANGED <<query, leadInfo, enhancedQuery, enhancedAgain,
                   langVars, providerVars, replyVars, chatVars, scoreVars, normVars>>

\* Lines 179-219: the enhanced query.
EnhanceQuery ==
    /\ pc = "enhance"
    /\ enhancedQuery' = buildEnhancedQuery(query, intent)
    /\ pc' = "again"
    /\ UNCHANGED <<query, leadInfo, intent, enhancedAgain,
                   langVars, providerVars, replyVars, chatVars, scoreVars, normVars>>

\* The enhancement applied to its own result, with the same intent.
EnhanceAgain ==
    /\ pc = "again"
    /\ enhancedAgain' = buildEnhancedQuery(enhancedQuery, intent)
    /\ pc' = "done"
    /\ UNCHANGED <<query, leadInfo, intent, enhancedQuery,
                   langVars, providerVars, replyVars, chatVars, scoreVars, normVars>>

NextIntent == ExtractIntent \/ EnhanceQuery \/ EnhanceAgain

SpecIntent == InitIntent /\ [][NextIntent]_vars

(***************************************************************************)
(* webSearchService.searchRealEstateInfo(query, leadInfo)                  *)
(***************************************************************************)
\* Lines 46-245, up to the request: without the API key or the engine id
\* the error is thrown inside the try block, and the catch block sends the
\* fallback request.
StartSearch(q, l) ==
    /\ query' = q
    /\ leadInfo' = l
    /\ enhancedAgain' = enhancedAgain
    /\ response' = response
    /\ results' = results
    /\ configured' = configured
    /\ IF configured
       THEN LET i == extractIntent(q, l)
            IN /\ intent' = i
               /\ enhancedQuery' = buildEnhancedQuery(q, i)
               /\ requests' = Append(requests, primaryRequest(buildEnhancedQuery(q, i)))
               /\ pc' = "primary"
       ELSE /\ UNCHANGED <<intent, enhancedQuery>>
            /\ requests' = Append(requests, fallbackRequest(q))
            /\ pc' = "fallback"

SearchRealEstateInfo ==
    /\ pc = "search"
    /\ StartSearch(query, leadInfo)
    /\ UNCHANGED <<langVars, replyVars, chatVars, scoreVars, normVars>>

\* The provider answers the first request: lines 247-308.
PrimaryResponds(answers) ==
    /\ pc = "primary"
    /\ \E answer \in answers :
          /\ response' = answer
          /\ results' = IF ~answer.data \/ answer.items = <<>> THEN <<>>
                        ELSE rankResults(answer.items, intent)
    /\ pc' = "returned"
    /\ UNCHANGED <<configured, requests, intentVars, langVars, replyVars, chatVars, scoreVars, normVars>>

\* The first request fails, and the catch block sends the fallback request
\* twice.
PrimaryFailsTwice ==
    /\ pc = "primary"
    /\ requests' = requests \o <<fallbackRequest(query), fallbackRequest(query)>>
    /\ pc' = "fallback"
    /\ UNCHANGED <<configured, response, results, intentVars, langVars, replyVars, chatVars, scoreVars,
                   normVars>>

\* The first request fails: the catch block sends the fallback request.
PrimaryFails ==
    /\ pc = "primary"
    /\ requests' = Append(requests, fallbackRequest(query))
    /\ pc' = "fallback"
    /\ UNCHANGED <<configured, response, results, intentVars, langVars, replyVars, chatVars, scoreVars,
                   normVars>>

\* An answer to the first request with an item that has no title.
MalformedAnswer == DataWith(<<[link |-> S("https://news.example.com")]>>)

\* The provider answers the first request with such an item: item.title
\* .toLowerCase() raises in calculateRelevanceScore (line 436), inside the
\* try block, and the catch block sends the fallback request.
PrimaryMalformed ==
    /\ pc = "primary"
    /\ response' = MalformedAnswer
    /\ requests' = Append(requests, fallbackRequest(query))
    /\ pc' = "fallback"
    /\ UNCHANGED <<configured, results, intentVars, langVars, replyVars, chatVars,
                   scoreVars, normVars>>

\* The provider answers the fallback request: lines 344-351, 355.
FallbackResponds(answers) ==
    /\ pc = "fallback"
    /\ \E answer \in answers :
          /\ response' = answer
          /\ results' = IF answer.data /\ answer.items # <<>>
                        THEN [k \in 1..Len(answer.items) |-> fallbackItem(answer.items[k])]
                        ELSE <<>>
    /\ pc' = "returned"
    /\ UNCHANGED <<configured, requests, intentVars, langVars, replyVars, chatVars, scoreVars, normVars>>

\* The fallback request fails: lines 352-355.
FallbackFails ==
    /\ pc = "fallback"
    /\ results' = <<>>
    /\ pc' = "returned"
    /\ UNCHANGED <<configured, requests, response, intentVars, langVars, replyVars, chatVars, scoreVars,
                   normVars>>

InitSearch ==
    /\ pc = "search"
    /\ query \in SearchQueries
    /\ leadInfo \in SearchLeads
    /\ intent = None /\ enhancedQuery = None /\ enhancedAgain = None
    /\ configured \in BOOLEAN
    /\ NoLanguage /\ NoSearch /\ NoReply /\ NoChat /\ NoScore /\ NoText

NextSearch ==
    \/ SearchRealEstateInfo
    \/ PrimaryResponds(SearchAnswers)
    \/ PrimaryFails
    \/ PrimaryMalformed
    \/ FallbackResponds(SearchAnswers)
    \/ FallbackFails

SpecSearch == InitSearch /\ [][NextSearch]_vars

(***************************************************************************)
(* mistralService.generateResponse(userMessage, leadInfo, messageHistory)  *)
(***************************************************************************)
\* The lead record the caller passes, by its identity.
CallerLead == "leadInfo"

\* obj[field] = value
Put(obj, field, value) ==
    [f \in DOMAIN obj \cup {field} |-> IF f = field THEN value ELSE obj[f]]

\* A text property of a lead record that is truthy.
Held(obj, field) == field \in DOMAIN obj /\ obj[field] # <<>>

\* Line 58, { ...leadInfo }: a new object with the properties of leadInfo.
spreadShared(object) == object

spread(object) == "copy of " \o object

\* Lines 59-62.
withSearch(lead, found, message) ==
    Put(Put(lead, "searchResults", found), "currentMessage", message)

\* Lines 68-70.
withDefaults(lead) ==
    IF "oneQuestionAtATime" \in DOMAIN lead THEN lead
    ELSE Put(lead, "oneQuestionAtATime", TRUE)

\* Lines 73-78.
withEnding(lead, isEndingConversation) ==
    IF isEndingConversation THEN Put(lead, "isEndingConversation", TRUE) ELSE lead

\* Lines 88-106, for one of the four properties.
mergeSlot(lead, slot, provided) ==
    IF Truthy(provided) /\ ~Held(lead, slot) THEN Put(lead, slot, provided.s)
    ELSE lead

\* Lines 85-106.
withHistory(lead, historyInfo) ==
    mergeSlot(
        mergeSlot(
            mergeSlot(
                mergeSlot(Put(lead, "conversationHistory", historyInfo),
                          "name", historyInfo.providedInfo.name),
                "budget", historyInfo.providedInfo.budget),
            "preferredLocation", historyInfo.providedInfo.preferredLocation),
        "propertyType", historyInfo.providedInfo.propertyType)

\* Lines 58-106: the properties of enhancedLeadInfo when the prompt is made.
enhanceLead(lead, found, message, history) ==
    withHistory(
        withEnding(withDefaults(withSearch(lead, found, message)),
                   isConversationEnding(JsString(message))),
        extractInfoFromHistory(formatMessageHistory(history)))

\* mistralService.enhanceUserMessage: the text as the list of its lines, a
\* line being the words of the source that introduce it and the value put
\* after them.
Line(label, value) == [label |-> label, value |-> value]

\* The topics of the message and the instructions added for each.
enhancements == <<
    [match |-> Literals(<<S("price"),
                           S("budget"),
                           <<2325, 2368, 2350, 2340>>,
                           <<2350, 2370, 2354, 2381, 2351>>,
                           S("cost"),
                           S("rate"),
                           <<2352, 2375, 2335>>>>),
     note |-> "Price Related Instructions"],
    [match |-> Literals(<<S("location"),
                           <<2360, 2381, 2341, 2366, 2344>>,
                           S("area"),
                           S("neighborhood"),
                           <<2311, 2354, 2366, 2325, 2366>>,
                           <<2325, 2381, 2359, 2375, 2340, 2381, 2352>>>>),
     note |-> "Location Related Instructions"],
    [match |-> Literals(<<S("invest"),
                           <<2344, 2367, 2357, 2375, 2358>>,
                           S("roi"),
                           S("return"),
                           S("profit"),
                           <<2354, 2366, 2349>>>>),
     note |-> "Investment Related Instructions"],
    [match |-> Literals(<<S("loan"),
                           S("finance"),
                           <<2315, 2339>>,
                           S("EMI"),
                           S("mortgage"),
                           <<2348, 2306, 2343, 2325>>>>),
     note |-> "Finance Related Instructions"],
    [match |-> Literals(<<S("feature"),
                           S("amenity"),
                           <<2360, 2369, 2357, 2367, 2343, 2366>>,
                           S("facility"),
                           <<2347, 2376, 2360, 2367, 2354, 2367, 2335, 2368>>>>),
     note |-> "Amenity Related Instructions"],
    [match |-> Literals(<<S("legal"),
                           S("document"),
                           <<2325, 2366, 2344, 2370, 2344, 2368>>,
                           <<2342, 2360, 2381, 2340, 2366, 2357, 2375, 2332, 2364>>>>),
     note |-> "Legal Documentation Instructions"],
    [match |-> Literals(<<S("rent"),
                           <<2325, 2367, 2352, 2366, 2351, 2366>>,
                           S("lease"),
                           <<2346, 2335, 2381, 2335, 2366>>>>),
     note |-> "Rental Property Instructions"] >>

\* Lines 411-416, 462-466.
conversationLines == <<Line("Conversation Instructions", <<>>)>>

questionControlLines == <<Line("IMPORTANT: Question Control", <<>>)>>

\* Lines 423-437.
askedLine(info, flag, label) ==
    IF info[flag] THEN <<Line(label, <<>>)>> ELSE <<>>

askedLines(info) ==
    askedLine(info, "askedAboutName", "You have already asked for the user's name")
    \o askedLine(info, "askedAboutBudget",
                 "You have already asked about the user's budget")
    \o askedLine(info, "askedAboutLocation",
                 "You have already asked about the user's preferred location")
    \o askedLine(info, "askedAboutPropertyType",
                 "You have already asked about the property type")

\* Lines 443-457.
providedLine(provided, slot, label, prefix) ==
    IF Truthy(provided[slot]) THEN <<Line(label, prefix \o provided[slot].s)>>
    ELSE <<>>

\* Lines 440-458: Object.keys(providedInfo).length > 0
providedLines(provided) ==
    IF \A slot \in DOMAIN provided : provided[slot].js = "undefined" THEN <<>>
    ELSE <<Line("User-Provided Information", <<>>)>>
         \o providedLine(provided, "name", "User has provided their name", <<>>)
         \o providedLine(provided, "budget", "User has provided their budget",
                         <<8377>>)   \* U+20B9
         \o providedLine(provided, "preferredLocation",
                         "User has provided their preferred location", <<>>)
         \o providedLine(provided, "propertyType",
                         "User has provided their preferred property type", <<>>)

\* Lines 419-459.
historyLines(lead) ==
    IF "conversationHistory" \in DOMAIN lead
    THEN <<Line("Conversation History Information", <<>>)>>
         \o askedLines(lead.conversationHistory)
         \o providedLines(lead.conversationHistory.providedInfo)
    ELSE <<>>

\* Lines 411-467.
oneQuestionLines(lead) ==
    IF "oneQuestionAtATime" \in DOMAIN lead /\ lead.oneQuestionAtATime
    THEN conversationLines \o historyLines(lead) \o questionControlLines
    ELSE <<>>

\* Lines 481-483.
RECURSIVE topicLines(_, _)
topicLines(message, k) ==
    IF k > Len(enhancements) THEN <<>>
    ELSE (IF test(enhancements[k].match, message, TRUE)
          THEN <<Line(enhancements[k].note, <<>>)>> ELSE <<>>)
         \o topicLines(message, k + 1)

\* Lines 487-490.
heldLine(lead, slot, label, prefix) ==
    IF Held(lead, slot) THEN <<Line(label, prefix \o lead[slot])>> ELSE <<>>

userLines(lead) ==
    <<Line("User Information", <<>>)>>
    \o heldLine(lead, "name", "Name", <<>>)
    \o heldLine(lead, "budget", "Budget", <<8377>>)
    \o heldLine(lead, "preferredLocation", "Preferred Location", <<>>)
    \o heldLine(lead, "propertyType", "Property Type", <<>>)

\* Lines 497-505, for one result.
resultLines(res, i) ==
    <<Line(ToString(i), cleanText(res.title)), Line("", cleanText(res.snippet)),
      Line("Source", res.link)>>

RECURSIVE resultsFrom(_, _)
resultsFrom(list, i) ==
    IF i > Len(list) THEN <<>>
    ELSE resultLines(list[i], i) \o resultsFrom(list, i + 1)

\* Lines 493-509.
searchLines(lead) ==
    IF "searchResults" \in DOMAIN lead /\ lead.searchResults # <<>>
    THEN <<Line("Latest Real Estate Information", <<>>)>>
         \o resultsFrom(Take(lead.searchResults, 5), 1)
         \o <<Line("Answer using the above information", <<>>)>>
    ELSE <<>>

enhanceUserMessage(message, lead) ==
    <<Line("", message), Line("Response Instructions", <<>>)>>
    \o oneQuestionLines(lead)
    \o topicLines(message, 1)
    \o userLines(lead)
    \o searchLines(lead)
    \o <<Line("Final Instructions", <<>>)>>

\* Lines 81 and 115: the turn list of the call with the prompt pushed on it.
promptTurns(history, message, lead) ==
    Append(formatMessageHistory(history),
           [role |-> "user", content |-> enhanceUserMessage(message, lead)])

InitRespond ==
    /\ pc = "message"
    /\ userMessage \in Messages
    /\ hostLead \in Leads
    /\ handled = 0 /\ apiKey \in BOOLEAN
    /\ messageHistory = <<>>
    /\ configured \in BOOLEAN
    /\ ending = None /\ enhancedLeadInfo = None /\ formattedHistory = None
    /\ scanned = None /\ extractedInfo = None
    /\ NoLanguage /\ NoIntent /\ NoSearch /\ NoText /\ NoScore

\* Lines 14-38: without the API key the call throws before its try block,
\* and the promise is rejected; else the message is checked and trimmed, and
\* the search is called with the message alone.
GenerateResponse ==
    /\ pc = "message"
    /\ IF ~apiKey
       THEN /\ pc' = "rejected"
            /\ UNCHANGED <<finalResponse, intentVars, providerVars>>
       ELSE IF ~Truthy(userMessage) \/ TypeOf(userMessage) # "string"
       THEN /\ finalResponse' = S("Please ask a valid question.")
            /\ pc' = "replied"
            /\ UNCHANGED <<intentVars, providerVars>>
       ELSE IF trim(userMessage.s) = <<>>
       THEN /\ finalResponse' =
                  S("Please provide your question in detail so I can assist you better.")
            /\ pc' = "replied"
            /\ UNCHANGED <<intentVars, providerVars>>
       ELSE /\ StartSearch(trim(userMessage.s), NoLead)
            /\ UNCHANGED finalResponse
    /\ UNCHANGED <<langVars, replyVars, chatVars, scoreVars, aiResponse, searchResults, finalAgain,
                   cleanedResponse>>

\* The writes of lines 58-115 to the object enhancedLeadInfo names and to
\* the turn list, the object being the caller's when it is not a new one.
WritePrompt(object, lead) ==
    /\ enhancedLeadInfo' = lead
    /\ hostLead' = IF object = CallerLead THEN lead ELSE hostLead
    /\ ending' = ("isEndingConversation" \in DOMAIN lead)
    /\ extractedInfo' = lead.conversationHistory
    /\ formattedHistory' = promptTurns(messageHistory, query, lead)
    /\ scanned' = Len(formattedHistory') - 1

\* Lines 41-121: the search has returned; the copy of the lead record, the
\* digest of the history and the prompt are made, and the request is sent
\* to the AI.
ComposePrompt ==
    /\ pc = "returned"
    /\ WritePrompt(spread(CallerLead),
                   enhanceLead(hostLead, results, query, messageHistory))
    /\ pc' = "prompt"
    /\ UNCHANGED <<userMessage, handled, apiKey, messageHistory, langVars, intentVars,
                   providerVars, scoreVars, normVars>>

\* Lines 121-147: the AI answers, and its text is cleaned and given the
\* digest of the search results.
MistralResponds(replies) ==
    /\ pc = "prompt"
    /\ \E content \in replies :
          LET aiContent == IF content = <<>> THEN S("AI response unavailable.")
                           ELSE content
          IN /\ aiResponse' = aiContent
             /\ searchResults' = results
             /\ finalResponse' = appendSearchResults(aiContent, results, JsString(query))
    /\ pc' = "replied"
    /\ UNCHANGED <<langVars, intentVars, providerVars, replyVars, chatVars, scoreVars, finalAgain,
                   cleanedResponse>>

\* Lines 148-154: the request to the AI fails.
MistralFails ==
    /\ pc = "prompt"
    /\ finalResponse' =
           S("AI response is temporarily unavailable. Please try again later.")
    /\ pc' = "replied"
    /\ UNCHANGED <<langVars, intentVars, providerVars, replyVars, chatVars, scoreVars, aiResponse,
                   searchResults, finalAgain, cleanedResponse>>

NextRespond ==
    \/ GenerateResponse
    \/ PrimaryResponds(ReplyAnswers)
    \/ PrimaryFails
    \/ FallbackResponds(ReplyAnswers)
    \/ FallbackFails
    \/ ComposePrompt
    \/ MistralResponds(Replies)
    \/ MistralFails

SpecRespond == InitRespond /\ [][NextRespond]_vars

(***************************************************************************)
(* A conversation: generateResponse is called for at most MaxMessages      *)
(* messages, one after the other, with the lead record and the message     *)
(* history of the host.                                                    *)
(***************************************************************************)
MaxMessages == 2

SessionMessages ==
    {JsString(S("thanks")), JsString(S(" flat for rent under rs 50,000 "))}

SessionLeads ==
    {NoLead, Put(Put(NoLead, "name", S("Ravi")), "budget", S("7500000"))}

SessionHistories ==
    {<<>>,
     <<[sender |-> "bot", message |-> S("May I know your name?")],
       [sender |-> "user",
        message |-> S("I'm Asha, budget is 50,00,000 for a villa")]>>}

SessionAnswers == {NoData, DataWith(<<HitNews>>)}

SessionReplies == {S("Here are some flats.")}

InitSession ==
    /\ pc = "message"
    /\ userMessage \in SessionMessages
    /\ hostLead \in SessionLeads
    /\ handled = 0 /\ apiKey = TRUE
    /\ messageHistory \in SessionHistories
    /\ configured = TRUE
    /\ ending = None /\ enhancedLeadInfo = None /\ formattedHistory = None
    /\ scanned = None /\ extractedInfo = None
    /\ NoLanguage /\ NoIntent /\ NoSearch /\ NoText /\ NoScore

\* The host calls generateResponse for the next message of the user, with
\* the objects it passed before: the variables of the call that has
\* returned are gone, and those of the new call are not set yet.
NextMessage ==
    /\ pc = "replied"
    /\ handled + 1 < MaxMessages
    /\ handled' = handled + 1
    /\ userMessage' \in SessionMessages
    /\ pc' = "message"
    /\ query' = None /\ leadInfo' = None /\ intent' = None
    /\ enhancedQuery' = None /\ enhancedAgain' = None
    /\ response' = None /\ results' = None
    /\ aiResponse' = None /\ searchResults' = None
    /\ finalResponse' = None /\ finalAgain' = None /\ cleanedResponse' = None
    /\ ending' = None /\ enhancedLeadInfo' = None /\ formattedHistory' = None
    /\ scanned' = None /\ extractedInfo' = None
    /\ UNCHANGED <<hostLead, apiKey, messageHistory, configured, requests, langVars,
                   scoreVars>>

NextSession ==
    \/ GenerateResponse
    \/ PrimaryResponds(SessionAnswers)
    \/ PrimaryFails
    \/ FallbackResponds(SessionAnswers)
    \/ FallbackFails
    \/ ComposePrompt
    \/ MistralResponds(SessionReplies)
    \/ MistralFails
    \/ NextMessage

SpecSession == InitSession /\ [][NextSession]_vars

(***************************************************************************)
(* mistralService.appendSearchResults on its own                           *)
(***************************************************************************)
NormTexts ==
    {S("Prices start at 50 lakh. Would you like to see more?"),
     S("Here are flats in Pune."),
     S("Baner is good. What is your budget? Tell me."),
     S("Options:") \o <<10>> \o S("1. Which area?") \o <<10>> \o S("- Rent or buy?")
         \o <<10>> \o <<10>> \o <<10>> \o S("Thanks"),
     S("Sure?"),
     S("it costs more. why? because of demand."),
     S("It costs 5 cr. Ok. Done.  Bye"),
     <<2325, 2381, 2351, 2366, 32, 2310, 2346, 2325, 2379, 32>> \o S("2 BHK")
         \o <<32, 2330, 2366, 2361, 2367, 2319>> \o S("?"),
     <<>>}

NormResults ==
    {<<>>,
     <<fallbackItem(HitNews)>>,
     <<enhancedItem(HitListing), enhancedItem(HitFlatsX)>>,
     <<enhancedItem(HitFlatsX), enhancedItem(HitFlatsY), fallbackItem(HitNews),
       enhancedItem(HitListing)>>}

NormMessages ==
    {JsString(S("What is the price of 2 BHK in Pune?")), JsString(S("thanks")),
     JsUndefined}

InitNorm ==
    /\ pc = "normalize"
    /\ aiResponse \in NormTexts
    /\ searchResults \in NormResults
    /\ userMessage \in NormMessages
    /\ finalResponse = None /\ finalAgain = None /\ cleanedResponse = None
    /\ hostLead = None /\ handled = 0 /\ apiKey = TRUE
    /\ configured = TRUE
    /\ NoLanguage /\ NoIntent /\ NoSearch /\ NoChat /\ NoScore

\* appendSearchResults(aiResponse, searchResults, userMessage)
AppendSearchResults ==
    /\ pc = "normalize"
    /\ finalResponse' = appendSearchResults(aiResponse, searchResults, userMessage)
    /\ pc' = "again"
    /\ UNCHANGED <<aiResponse, searchResults, finalAgain, cleanedResponse, langVars, intentVars,
                   providerVars, replyVars, chatVars, scoreVars>>

\* appendSearchResults applied to its own result, with the same results and
\* the same user message.
AppendAgain ==
    /\ pc = "again"
    /\ finalAgain' = appendSearchResults(finalResponse, searchResults, userMessage)
    /\ pc' = "done"
    /\ UNCHANGED <<aiResponse, searchResults, finalResponse, cleanedResponse, langVars, intentVars,
                   providerVars, replyVars, chatVars, scoreVars>>

NextNorm == AppendSearchResults \/ AppendAgain

SpecNorm == InitNorm /\ [][NextNorm]_vars

(***************************************************************************)
(* mistralService.appendSearchResults with any JavaScript value as the AI  *)
(* response: the strings of NormTexts and values that are not strings.     *)
(* Calling replace on a value that has no such method raises a TypeError,  *)
(* which leaves the call without a value.                                  *)
(***************************************************************************)
AiValues ==
    {JsString(t) : t \in NormTexts}
    \cup {JsNull, JsUndefined, JsObject, JsNumber(0), JsNumber(5)}

InitAppend ==
    /\ pc = "append"
    /\ aiResponse \in AiValues
    /\ searchResults \in NormResults
    /\ userMessage \in NormMessages
    /\ finalResponse = None /\ finalAgain = None /\ cleanedResponse = None
    /\ hostLead = None /\ handled = 0 /\ apiKey = TRUE
    /\ configured = TRUE
    /\ NoLanguage /\ NoIntent /\ NoSearch /\ NoChat /\ NoScore

\* Lines 519-522: without results the AI response is returned as it is.
ReturnOriginal ==
    /\ pc = "append"
    /\ searchResults = <<>>
    /\ finalResponse' = aiResponse
    /\ pc' = "returned"
    /\ UNCHANGED <<aiResponse, searchResults, finalAgain, cleanedResponse, langVars, intentVars,
                   providerVars, replyVars, chatVars, scoreVars>>

\* Lines 524-641 for a string: the cleaned text and the digest.
ReturnCleaned ==
    /\ pc = "append"
    /\ searchResults # <<>>
    /\ TypeOf(aiResponse) = "string"
    /\ finalResponse' =
           JsString(appendSearchResults(aiResponse.s, searchResults, userMessage))
    /\ pc' = "returned"
    /\ UNCHANGED <<aiResponse, searchResults, finalAgain, cleanedResponse, langVars, intentVars,
                   providerVars, replyVars, chatVars, scoreVars>>

\* Line 564 for a value that is not a string: cleanedResponse.replace is not
\* a function (or cleanedResponse is null or undefined), a TypeError.
RaiseTypeError ==
    /\ pc = "append"
    /\ searchResults # <<>>
    /\ TypeOf(aiResponse) # "string"
    /\ pc' = "raised"
    /\ UNCHANGED <<normVars, langVars, intentVars, providerVars, replyVars,
                   chatVars, scoreVars>>

NextAppend == ReturnOriginal \/ ReturnCleaned \/ RaiseTypeError

SpecAppend == InitAppend /\ [][NextAppend]_vars

(***************************************************************************)

(* webSearchService.calculateRelevanceScore on its own: two hits, each a   *)
(* link, a title and a snippet of the lists below, scored for one intent.  *)
(***************************************************************************)
ScoreLinks ==
    {S("https://www.99acres.com/p1"), S("https://housing.com/x"),
     S("https://www.example.org/home")}
ScoreTitles ==
    {S("3 BHK Flat in Pune for Sale"), S("2 BHK Villa in Mumbai for sale"),
     S("3 BHK home for sale"), S("Spacious home for sale")}
ScoreSnippets == {<<8377>> \o S("75 lakh"), S("Call now to buy")}

ScoreHits ==
    {[title |-> t, snippet |-> s, link |-> l, pagemap |-> {"metatags"}] :
        t \in ScoreTitles, s \in ScoreSnippets, l \in ScoreLinks}

ScoreIntents ==
    {[location |-> S("Pune"), budget |-> <<>>, propertyType |-> S("flat"),
      transactionType |-> S("buy"), bedrooms |-> S("3")],
     [location |-> S("Mumbai"), budget |-> <<>>, propertyType |-> S("villa"),
      transactionType |-> S("buy"), bedrooms |-> S("2")]}

InitScore ==
    /\ pc = "score"
    /\ candidates \in ScoreHits \X ScoreHits
    /\ intent \in ScoreIntents
    /\ scores = None
    /\ query = None /\ leadInfo = None /\ enhancedQuery = None /\ enhancedAgain = None
    /\ configured = TRUE
    /\ NoLanguage /\ NoSearch /\ NoReply /\ NoChat /\ NoText

\* calculateRelevanceScore(item, query, location, propertyType,
\* transactionType, bedrooms), for each of the two hits
CalculateRelevanceScore ==
    /\ pc = "score"
    /\ scores' = <<calculateRelevanceScore(candidates[1], intent),
                   calculateRelevanceScore(candidates[2], intent)>>
    /\ pc' = "done"
    /\ UNCHANGED <<candidates, intentVars, langVars, providerVars, replyVars,
                   chatVars, normVars>>

NextScore == CalculateRelevanceScore

SpecScore == InitScore /\ [][NextScore]_vars

(***************************************************************************)

(* mistralService.extractInfoFromHistory: the forEach over a turn list of  *)
(* at most MaxTurns turns, one turn at a step.                             *)
(***************************************************************************)
MaxTurns == 3

Turns ==
    {[role |-> "assistant", content |-> S("May I know your name?")],
     [role |-> "assistant",
      content |-> S("What is your budget? Any preferred location?")],
     [role |-> "assistant", content |-> S("my name is Bot, budget is 5")],
     [role |-> "user", content |-> S("My name is Ravi")],
     [role |-> "user", content |-> S("I'm Asha, budget is 50,00,000 for a villa")],
     [role |-> "user", content |-> S("a flat or house in the area Baner, Pune")],
     [role |-> "user", content |-> S("what is your name")]}

RECURSIVE TurnLists(_)
TurnLists(n) ==
    IF n = 0 THEN {<<>>}
    ELSE LET shorter == TurnLists(n - 1)
         IN shorter \cup {Append(list, t) : list \in shorter, t \in Turns}

InitHistory ==
    /\ pc = "scan"
    /\ formattedHistory \in TurnLists(MaxTurns)
    /\ scanned = 0
    /\ extractedInfo = emptyDigest
    /\ messageHistory = None /\ ending = None /\ enhancedLeadInfo = None
    /\ configured = TRUE
    /\ NoLanguage /\ NoIntent /\ NoSearch /\ NoReply /\ NoScore /\ NoText

\* One round of formattedHistory.forEach: the next turn is looked at.
ScanTurn ==
    /\ pc = "scan"
    /\ scanned < Len(formattedHistory)
    /\ extractedInfo' = scanTurn(extractedInfo, formattedHistory[scanned + 1])
    /\ scanned' = scanned + 1
    /\ UNCHANGED <<pc, formattedHistory, messageHistory, ending, enhancedLeadInfo,
                   langVars, intentVars, providerVars, replyVars, scoreVars,
                   normVars>>

\* return extractedInfo
ReturnDigest ==
    /\ pc = "scan"
    /\ scanned = Len(formattedHistory)
    /\ pc' = "done"
    /\ UNCHANGED <<chatVars, langVars, intentVars, providerVars, replyVars,
                   scoreVars, normVars>>

NextHistory == ScanTurn \/ ReturnDigest

SpecHistory == InitHistory /\ [][NextHistory]_vars

(***************************************************************************)

(* mistralService.isConversationEnding on its own: messages of at most     *)
(* MaxParts parts (closing phrases, short replies, questions with and      *)
(* without a closing phrase inside a longer word), and values that are not *)
(* strings.                                                                *)
(***************************************************************************)
MaxParts == 2

EndingParts ==
    {S("thanks"), S("Pune"), S("ok"), S("price?"), S("  "),
     S("can i book a flat?"), S("what is the price of 2 bhk?"),
     S("goodbye my friend"), S("3 bhk near the lake"),
     <<2343, 2344, 2381, 2351, 2357, 2366, 2342>>}

RECURSIVE MessagesOf(_)
MessagesOf(n) ==
    IF n = 0 THEN {<<>>}
    ELSE LET shorter == MessagesOf(n - 1)
         IN shorter \cup {IF m = <<>> THEN p ELSE m \o S(" ") \o p :
                             m \in shorter, p \in EndingParts}

EndingInputs ==
    {JsString(m) : m \in MessagesOf(MaxParts)}
    \cup {JsNull, JsUndefined, JsObject, JsNumber(0), JsNumber(5)}

InitEnding ==
    /\ pc = "classify"
    /\ userMessage \in EndingInputs
    /\ ending = None
    /\ hostLead = None /\ handled = 0 /\ apiKey = TRUE /\ enhancedLeadInfo = None /\ NoHistory /\ NoScore
    /\ configured = TRUE
    /\ NoLanguage /\ NoIntent /\ NoSearch /\ NoText

\* isConversationEnding(message)
IsConversationEnding ==
    /\ pc = "classify"
    /\ ending' = isConversationEnding(userMessage)
    /\ pc' = "done"
    /\ UNCHANGED <<replyVars, enhancedLeadInfo, historyVars,
                   langVars, intentVars, providerVars, normVars, scoreVars>>

NextEnding == IsConversationEnding

SpecEnding == InitEnding /\ [][NextEnding]_vars

(***************************************************************************)

(* Claims about appendSearchResults                                        *)
(***************************************************************************)
QuestionMark == S("?")

\* C1 as stated: the string appendSearchResults returns holds no '?', for
\* every AI text, result list and user message.
C1_Original ==
    pc \in {"again", "done"} => ~includes(finalResponse, QuestionMark)

\* C1, amended: with an empty result list the AI text is returned as it is;
\* with a non-empty list the returned string is the cleaned text followed by
\* the digest of the results, and the cleaned text holds no '?'.
C1_CleanedTextHasNoQuestionMark ==
    pc \in {"again", "done"} =>
        IF searchResults = <<>> THEN finalResponse = aiResponse
        ELSE LET digest == formatSummary(searchResults)
                 cut == Len(finalResponse) - Len(digest)
             IN /\ cut >= 0
                /\ SubSeq(finalResponse, cut + 1, Len(finalResponse)) = digest
                /\ \A k \in 1..cut : <<finalResponse[k]>> # QuestionMark

C1_Witness ==
    /\ pc = "again"
    /\ searchResults # <<>>
    /\ aiResponse = S("it costs more. why? because of demand.")
    /\ userMessage = JsString(S("thanks"))
    /\ includes(finalResponse, S("it costs more. because of demand."))
    /\ includes(finalResponse, S("Who won? Latest match news"))

C3_Original ==
    pc = "done" => enhancedAgain = enhancedQuery

\* C3, amended: enhancing the enhanced query with the same intent appends no
\* qualifier phrase, location, property type, transaction token, budget or
\* bedroom token again, and appends the portal disjunction once more.
C3_OnlyPortalsAppendedAgain ==
    pc = "done" => enhancedAgain = enhancedQuery \o portalQueryPart

C3_Witness ==
    /\ pc = "done"
    /\ query = S("2 bhk")
    /\ leadInfo.preferredLocation = S("Navi Mumbai")
    /\ includes(enhancedQuery, S("2 bhk real estate property in Navi Mumbai Penthouse"))
    /\ Len(enhancedAgain) = Len(enhancedQuery) + Len(portalQueryPart)

\* C4: a non-empty location, budget or property type of the lead record is
\* the value of the intent, whatever the query holds.
C4_KnownSlotsKept ==
    pc \in {"enhance", "again", "done"} =>
        /\ leadInfo.preferredLocation # <<>> =>
               intent.location = leadInfo.preferredLocation
        /\ leadInfo.budget # <<>> => intent.budget = leadInfo.budget
        /\ leadInfo.propertyType # <<>> => intent.propertyType = leadInfo.propertyType

C4_Witness ==
    /\ pc = "enhance"
    /\ query = S("2 bhk in Pune")
    /\ leadInfo.preferredLocation = S("Mumbai")
    /\ intent.location = S("Mumbai")

\* The query, in lower case, holds one of the terms.
Mentions(q, terms) == \E k \in 1..Len(terms) : includes(toLowerCase(q), terms[k])

Searched == requests # <<>> /\ requests[1].num = 10

\* C6: while a message is answered, a non-empty preferredLocation, budget or
\* propertyType of the lead record is the value of the intent of the search,
\* and so is in the enhanced query.
C6_LeadSeedsSearch ==
    Searched =>
        /\ hostLead.preferredLocation # <<>> =>
               /\ intent.location = hostLead.preferredLocation
               /\ includes(toLowerCase(enhancedQuery),
                           toLowerCase(hostLead.preferredLocation))
        /\ hostLead.budget # <<>> => intent.budget = hostLead.budget
        /\ hostLead.propertyType # <<>> =>
               intent.propertyType = hostLead.propertyType

\* C7: the list searchRealEstateInfo returns has at most 5 elements.
C7_AtMostFiveHits ==
    pc = "returned" => Len(results) <= 5

\* The score of the k-th item of the provider's answer, and its place in the
\* ranking: one more than the number of items with a greater score, or with
\* the same score and an earlier place in the answer.
ScoreAt(k) == relevanceScore(response.items[k], intent)
RankOf(k) ==
    1 + Cardinality({j \in 1..Len(response.items) :
                        \/ ScoreAt(j) > ScoreAt(k)
                        \/ ScoreAt(j) = ScoreAt(k) /\ j < k})

\* C8: the list returned for an answer with items holds the items in the
\* order of falling score, items of equal score in the order of the answer,
\* and only the first five of that order.
C8_RankedStableTopFive ==
    (pc = "returned" /\ requests[Len(requests)].num = 10
       /\ response.data /\ response.items # <<>>) =>
        /\ Len(results) = IF Len(response.items) < 5 THEN Len(response.items) ELSE 5
        /\ \A k \in 1..Len(response.items) :
              RankOf(k) <= 5 =>
                  /\ results[RankOf(k)].title = response.items[k].title
                  /\ results[RankOf(k)].link = response.items[k].link
                  /\ results[RankOf(k)].snippet = response.items[k].snippet

C8_Witness ==
    /\ pc = "returned"
    /\ requests[Len(requests)].num = 10
    /\ response = DataWith(<<HitFlatsY, HitFlatsX, HitFlatsY, HitFlatsX, HitFlatsY,
                             HitListing>>)
    /\ Len(results) = 5
    /\ results[1].link = HitListing.link
    /\ results[2].link = HitFlatsY.link
    /\ results[3].link = HitFlatsX.link


(***************************************************************************)
(* mistralService.appendSearchResults in two steps: the cleaning of lines  *)
(* 559-632, and the removal of short fragments of line 635 with the        *)
(* summary appended.  The AI texts are one to three sentences, each ended  *)
(* by a period.                                                            *)
(***************************************************************************)
FragmentSentences ==
    {S("Ok"), S(" Call me"), S("No brokerage charged"),
     S(" Ten flats are there"), S(" Prices start at 50 lakh in Baner")}

FragmentTexts ==
    {a \o S(".") : a \in FragmentSentences}
    \cup {a \o S(".") \o b \o S(".") : a, b \in FragmentSentences}
    \cup {a \o S(".") \o b \o S(".") \o c \o S(".") : a, b, c \in FragmentSentences}

InitFragments ==
    /\ pc = "clean"
    /\ aiResponse \in FragmentTexts
    /\ searchResults \in {<<>>, <<fallbackItem(HitNews)>>}
    /\ userMessage = JsString(S("What is the price of 2 BHK in Pune?"))
    /\ finalResponse = None /\ finalAgain = None /\ cleanedResponse = None
    /\ hostLead = None /\ handled = 0 /\ apiKey = TRUE
    /\ configured = TRUE
    /\ NoLanguage /\ NoIntent /\ NoSearch /\ NoChat /\ NoScore

\* Lines 519-522: with no search results the AI text is returned as it is.
ReturnUncleaned ==
    /\ pc = "clean" /\ searchResults = <<>>
    /\ finalResponse' = aiResponse
    /\ pc' = "done"
    /\ UNCHANGED <<aiResponse, searchResults, finalAgain, cleanedResponse, langVars,
                   intentVars, providerVars, replyVars, chatVars, scoreVars>>

\* Lines 559-632: the cleaning up to the trim.
CleanResponse ==
    /\ pc = "clean" /\ searchResults # <<>>
    /\ cleanedResponse' = tidyResponse(aiResponse, isConversationEnding(userMessage))
    /\ pc' = "fragments"
    /\ UNCHANGED <<aiResponse, searchResults, finalResponse, finalAgain, langVars,
                   intentVars, providerVars, replyVars, chatVars, scoreVars>>

\* Lines 635-641: the short fragments go, and the summary is appended.
DropShortFragments ==
    /\ pc = "fragments"
    /\ cleanedResponse' = dropShortFragments(cleanedResponse)
    /\ finalResponse' = dropShortFragments(cleanedResponse) \o formatSummary(searchResults)
    /\ pc' = "done"
    /\ UNCHANGED <<aiResponse, searchResults, finalAgain, langVars, intentVars,
                   providerVars, replyVars, chatVars, scoreVars>>

NextFragments == ReturnUncleaned \/ CleanResponse \/ DropShortFragments

SpecFragments == InitFragments /\ [][NextFragments]_vars


(***************************************************************************)
(* The two readers of a property type on one text: the history miner       *)
(* (mistralService.extractInfoFromHistory on a history of one user turn)   *)
(* and the intent extractor (webSearchService.searchRealEstateInfo on the  *)
(* text as the query, with no lead record).  The texts are the words of    *)
(* the two vocabularies, other words and sentences.                        *)
(***************************************************************************)
VocabularyTexts ==
    {propertyTypes[k] : k \in 1..Len(propertyTypes)}
    \cup {mentionedTypes[k] : k \in 1..Len(mentionedTypes)}
    \cup {S("hello"), S("budget"), S("I want a Condo in Pune"),
          S("Looking for a plot near Baner"), S("a flat or a villa")}

InitVocabulary ==
    /\ pc = "mine"
    /\ query \in VocabularyTexts
    /\ formattedHistory = <<[role |-> "user", content |-> query]>>
    /\ scanned = 0
    /\ extractedInfo = emptyDigest
    /\ leadInfo = NoLead
    /\ intent = None /\ enhancedQuery = None /\ enhancedAgain = None
    /\ messageHistory = None /\ ending = None /\ enhancedLeadInfo = None
    /\ configured = TRUE
    /\ NoLanguage /\ NoSearch /\ NoReply /\ NoScore /\ NoText

\* extractInfoFromHistory(formattedHistory)
MineHistory ==
    /\ pc = "mine"
    /\ extractedInfo' = extractInfoFromHistory(formattedHistory)
    /\ scanned' = Len(formattedHistory)
    /\ pc' = "extract"
    /\ UNCHANGED <<formattedHistory, messageHistory, ending, enhancedLeadInfo,
                   langVars, intentVars, providerVars, replyVars, scoreVars,
                   normVars>>

\* The intent the search service extracts from the same text.
ExtractFromTurn ==
    /\ pc = "extract"
    /\ intent' = extractIntent(query, leadInfo)
    /\ pc' = "done"
    /\ UNCHANGED <<query, leadInfo, enhancedQuery, enhancedAgain,
                   langVars, providerVars, replyVars, chatVars, scoreVars, normVars>>

NextVocabulary == MineHistory \/ ExtractFromTurn

SpecVocabulary == InitVocabulary /\ [][NextVocabulary]_vars


(***************************************************************************)
(* A conversation over many requests: the host stores the user message and *)
(* the reply of every exchange at the end of its message history, and      *)
(* every call of generateResponse formats the stored history and mines it  *)
(* (lines 80-84).  The history never holds more than MaxStored turns.      *)
(***************************************************************************)
MaxStored == 12

ConversationStarts ==
    {<<>>, <<[sender |-> "bot", message |-> S("May I know your name?")]>>}

\* What the host stores for one exchange: the user message, then the reply.
Exchanges ==
    {<<[sender |-> "user", message |-> S("My name is Ravi")],
       [sender |-> "bot", message |-> S("What is your budget?")]>>,
     <<[sender |-> "user", message |-> S("ok")],
       [sender |-> "bot", message |-> S("Noted.")]>>}

InitConversation ==
    /\ pc = "request"
    /\ messageHistory \in ConversationStarts
    /\ formattedHistory = <<>>
    /\ extractedInfo = emptyDigest
    /\ scanned = None /\ ending = None /\ enhancedLeadInfo = None
    /\ configured = TRUE
    /\ NoLanguage /\ NoIntent /\ NoSearch /\ NoReply /\ NoScore /\ NoText

\* Lines 80-84 of generateResponse: formatMessageHistory(messageHistory),
\* then extractInfoFromHistory(formattedHistory).
MineStoredHistory ==
    /\ pc = "request"
    /\ formattedHistory' = formatMessageHistory(messageHistory)
    /\ extractedInfo' = extractInfoFromHistory(formatMessageHistory(messageHistory))
    /\ pc' = "replied"
    /\ UNCHANGED <<messageHistory, scanned, ending, enhancedLeadInfo, langVars,
                   intentVars, providerVars, replyVars, scoreVars, normVars>>

\* The host appends the exchange to the stored history.
StoreExchange ==
    /\ pc = "replied"
    /\ Len(messageHistory) + 2 <= MaxStored
    /\ \E exchange \in Exchanges : messageHistory' = messageHistory \o exchange
    /\ pc' = "request"
    /\ UNCHANGED <<formattedHistory, extractedInfo, scanned, ending,
                   enhancedLeadInfo, langVars, intentVars, providerVars,
                   replyVars, scoreVars, normVars>>

NextConversation == MineStoredHistory \/ StoreExchange

SpecConversation == InitConversation /\ [][NextConversation]_vars


(***************************************************************************)
(* mistralService.createSystemMessage, lines 759-820: the instruction of   *)
(* the next-question cascade and the question-control lines.  A line of    *)
(* the system message is modelled by the branch that writes it and by the  *)
(* language of its text ("hi" for the Hindi text of hi, mr and gu).        *)
(***************************************************************************)
\* Lines 646-650: the language of leadInfo.currentMessage, 'en' without one.
promptLanguage(lead) ==
    IF Held(lead, "currentMessage")
    THEN detectLanguage(JsString(lead.currentMessage)) ELSE "en"

instructionText(lead) ==
    IF promptLanguage(lead) \in {"hi", "mr", "gu"} THEN "hi" ELSE "en"

\* Line 762: leadInfo.name && leadInfo.propertyType && leadInfo.budget &&
\* leadInfo.preferredLocation
hasAllBasicInfo(lead) ==
    /\ Held(lead, "name") /\ Held(lead, "propertyType")
    /\ Held(lead, "budget") /\ Held(lead, "preferredLocation")

\* Line 765: leadInfo.isEndingConversation ||
\* (leadInfo.currentMessage && this.isConversationEnding(leadInfo.currentMessage))
isEndingFor(lead) ==
    \/ "isEndingConversation" \in DOMAIN lead /\ lead.isEndingConversation
    \/ Held(lead, "currentMessage")
          /\ isConversationEnding(JsString(lead.currentMessage))

\* Line 768: leadInfo.conversationHistory || { askedAboutName: false, ... }
historyInfoOf(lead) ==
    IF "conversationHistory" \in DOMAIN lead THEN lead.conversationHistory
    ELSE emptyDigest

\* The cascade without the tests of what the history has asked.
nextInstructionUnasked(lead) ==
    IF isEndingFor(lead) THEN <<"ending">>
    ELSE IF hasAllBasicInfo(lead) THEN <<"allCollected", "allCollected">>
    ELSE IF ~Held(lead, "name") THEN <<"askName">>
    ELSE IF ~Held(lead, "propertyType") THEN <<"askPropertyType">>
    ELSE IF ~Held(lead, "budget") THEN <<"askBudget">>
    ELSE IF ~Held(lead, "preferredLocation") THEN <<"askLocation">>
    ELSE <<"respondOnly">>

\* Lines 772-790 and 793-811: the branch taken, one entry for each line it
\* adds to the context.
nextInstruction(lead) ==
    IF isEndingFor(lead) THEN <<"ending">>
    ELSE IF hasAllBasicInfo(lead) THEN <<"allCollected", "allCollected">>
    ELSE IF ~Held(lead, "name") /\ ~historyInfoOf(lead).askedAboutName
    THEN <<"askName">>
    ELSE IF /\ ~Held(lead, "propertyType")
            /\ ~historyInfoOf(lead).askedAboutPropertyType
            /\ (Held(lead, "name") \/ historyInfoOf(lead).askedAboutName)
    THEN <<"askPropertyType">>
    ELSE IF /\ ~Held(lead, "budget")
            /\ ~historyInfoOf(lead).askedAboutBudget
            /\ (Held(lead, "propertyType") \/ historyInfoOf(lead).askedAboutPropertyType)
    THEN <<"askBudget">>
    ELSE IF /\ ~Held(lead, "preferredLocation")
            /\ ~historyInfoOf(lead).askedAboutLocation
            /\ (Held(lead, "budget") \/ historyInfoOf(lead).askedAboutBudget)
    THEN <<"askLocation">>
    ELSE <<"respondOnly">>

\* Lines 814-819: the heading and the four lines of the question control.
questionControl == <<"IMPORTANT: Question Control", "questionControl",
                     "questionControl", "questionControl", "questionControl">>

\* Lines 759-820: the heading, the instruction and the question control,
\* when leadInfo.oneQuestionAtATime is set.
cascadeLines(lead) ==
    IF "oneQuestionAtATime" \in DOMAIN lead /\ lead.oneQuestionAtATime
    THEN [k \in 1..(1 + Len(nextInstruction(lead))) |->
             Line(IF k = 1 THEN "Current Conversation Instructions"
                  ELSE nextInstruction(lead)[k - 1],
                  instructionText(lead))]
         \o [k \in 1..Len(questionControl) |-> Line(questionControl[k], "en")]
    ELSE <<>>

\* createSystemMessage(leadInfo), the part of lines 759-820
createSystemMessage(lead) == [role |-> "system", content |-> cascadeLines(lead)]

(***************************************************************************)
(* generateResponse from the return of the search (with no hit) to the     *)
(* request to the AI: messages is the system message followed by the turns *)
(* of the prompt.                                                          *)
(***************************************************************************)
Known(slots) ==
    [f \in DOMAIN NoLead \cup slots |->
        IF f \in slots THEN S("known") ELSE <<>>]

PromptLeads ==
    {Known(slots) : slots \in SUBSET {"name", "propertyType", "budget", "preferredLocation"}}
    \cup {Put(NoLead, "oneQuestionAtATime", FALSE)}

PromptQueries ==
    {S("What is the price of 2 BHK in Pune?"), S("thanks"),
     <<2350, 2369, 2333, 2375, 32, 2346, 2369, 2339, 2375, 32, 2350, 2375, 2306,
       32, 2328, 2352, 32, 2330, 2366, 2361, 2367, 2319>>}

AssistantAsked(question) == [sender |-> "bot", message |-> S(question)]

PromptHistories ==
    {<<>>,
     <<AssistantAsked("May I know your name?")>>,
     <<AssistantAsked("May I know your name?"),
       AssistantAsked("What type of property are you looking for?")>>,
     <<AssistantAsked("What type of property are you looking for?"),
       AssistantAsked("What is your budget? Any preferred location?")>>,
     <<AssistantAsked("May I know your name?"),
       AssistantAsked("What type of property are you looking for?"),
       AssistantAsked("What is your budget? Any preferred location?")>>}

InitPrompt ==
    /\ pc = "returned"
    /\ query \in PromptQueries
    /\ userMessage = JsString(query)
    /\ hostLead \in PromptLeads
    /\ messageHistory \in PromptHistories
    /\ handled = 0 /\ apiKey = TRUE
    /\ leadInfo = NoLead /\ intent = None
    /\ enhancedQuery = None /\ enhancedAgain = None
    /\ requests = <<>> /\ response = None /\ results = <<>>
    /\ configured = FALSE
    /\ ending = None /\ enhancedLeadInfo = None /\ formattedHistory = None
    /\ scanned = None /\ extractedInfo = None
    /\ NoLanguage /\ NoText /\ NoScore

\* Lines 58-125: the copy of the lead record, the digest of the history,
\* the system message and the prompt; messages is
\* [systemMessage, ...formattedHistory].
ComposeMessages ==
    /\ pc = "returned"
    /\ LET lead == enhanceLead(hostLead, results, query, messageHistory)
       IN /\ enhancedLeadInfo' = lead
          /\ ending' = ("isEndingConversation" \in DOMAIN lead)
          /\ extractedInfo' = lead.conversationHistory
          /\ formattedHistory' = <<createSystemMessage(lead)>>
                                 \o promptTurns(messageHistory, query, lead)
    /\ scanned' = Len(messageHistory)
    /\ pc' = "prompt"
    /\ UNCHANGED <<hostLead, userMessage, handled, apiKey, messageHistory, langVars,
                   intentVars, providerVars, scoreVars, normVars>>

NextPrompt ==
    \/ ComposeMessages
    \/ MistralResponds(SessionReplies)
    \/ MistralFails

SpecPrompt == InitPrompt /\ [][NextPrompt]_vars


(***************************************************************************)
(* webSearchService.calculateRelevanceScore for one hit, one item of the   *)
(* rubric at a step: let score = 0, and then the additions to it in the    *)
(* order of the code.                                                      *)
(***************************************************************************)
\* The items of the rubric in the order of lines 441-744.
rubric ==
    <<"site", "propertyType", "location", "price", "bedrooms", "details",
      "recency", "transaction", "offTopic", "detailTerms", "pagemap",
      "complete">>

\* What an item of the rubric adds to the score of the hit.
Contribution(part, title, snippet, link, pagemap, i) ==
    CASE part = "site" -> SiteScore(link)
      [] part = "propertyType" -> PropertyTypeScore(title, snippet, i.propertyType)
      [] part = "location" -> LocationScore(title, snippet, i.location)
      [] part = "price" -> PriceScore(title, snippet)
      [] part = "bedrooms" -> BedroomScore(title, snippet, i.bedrooms)
      [] part = "details" -> DetailPatternScore(title, snippet)
      [] part = "recency" -> RecencyScore(title, snippet)
      [] part = "transaction" -> TransactionScore(title, snippet, i.transactionType)
      [] part = "offTopic" -> OffTopicScore(title, snippet)
      [] part = "detailTerms" -> DetailTermScore(title, snippet)
      [] part = "pagemap" -> PagemapScore(pagemap)
      [] part = "complete" -> CompletenessScore(title, snippet, link)

\* The item after an item of the rubric, and "done" after the last.
After(part) ==
    LET k == CHOOSE n \in 1..Len(rubric) : rubric[n] = part
    IN IF k = Len(rubric) THEN "done" ELSE rubric[k + 1]

RubricLinks ==
    {S("https://www.99acres.com/p1"), S("https://www.makaan.com/x"),
     S("https://news.example.com/housing-loans"),
     S("https://www.propertywala.com/p"), S("https://www.olx.in/item/3"),
     S("https://www.example.org/home")}

RubricTitles ==
    {S("3 BHK Flat in Pune for Sale"), S("2 BHK flat for rent in Pune"),
     S("Flat on sale or lease, Baner Pune"), S("Flats in Pune"),
     S("Cricket scores"), S("Cheap loans today")}

RubricSnippets ==
    {<<8377>> \o S("75 lakh, 1200 sq ft, furnished, 2 bathrooms, parking, posted 2 days ago in Baner"),
     S("Latest match news"), S("Offers to let")}

RubricPagemaps == {{}, {"metatags", "product", "offer", "cse_image"}}

RubricHits ==
    {[title |-> t, snippet |-> s, link |-> l, pagemap |-> p] :
        t \in RubricTitles, s \in RubricSnippets, l \in RubricLinks,
        p \in RubricPagemaps}

RubricIntents ==
    {[location |-> S("Pune"), budget |-> <<>>, propertyType |-> S("flat"),
      transactionType |-> S("buy"), bedrooms |-> S("3")],
     [location |-> S("Baner, Pune"), budget |-> <<>>, propertyType |-> <<>>,
      transactionType |-> S("rent"), bedrooms |-> <<>>],
     [location |-> <<>>, budget |-> <<>>, propertyType |-> S("villa"),
      transactionType |-> <<>>, bedrooms |-> S("2")]}

InitRubric ==
    /\ pc = rubric[1]
    /\ candidates \in {<<h>> : h \in RubricHits}
    /\ intent \in RubricIntents
    /\ scores = <<0>>
    /\ query = None /\ leadInfo = None /\ enhancedQuery = None /\ enhancedAgain = None
    /\ configured = TRUE
    /\ NoLanguage /\ NoSearch /\ NoReply /\ NoChat /\ NoText

\* The next item of the rubric is added to the score.
AddToScore ==
    /\ pc # "done"
    /\ scores' = <<scores[1]
                   + Contribution(pc, toLowerCase(candidates[1].title),
                                  toLowerCase(candidates[1].snippet),
                                  toLowerCase(candidates[1].link),
                                  candidates[1].pagemap, intent)>>
    /\ pc' = After(pc)
    /\ UNCHANGED <<candidates, intentVars, langVars, providerVars, replyVars,
                   chatVars, normVars>>

NextRubric == AddToScore

SpecRubric == InitRubric /\ [][NextRubric]_vars

(***************************************************************************)
(* Claims about detectLanguage                                             *)
(***************************************************************************)

\* s has at least three code points of the block in a row.
HasRun(s, block) ==
    \E p \in 1..(Len(s) - 2) :
        \A k \in p..(p + 2) : block[1] <= s[k] /\ s[k] <= block[2]

HasWord(s, list) == \E k \in 1..Len(list) : includes(s, list[k])

IsBlank(v) == v.js = "string" /\ \A k \in 1..Len(v.s) : IsSpace(v.s[k])

\* C9: detectLanguage returns 'en' for the empty string, for a string of
\* white space only and for a value that is not a string, and does not raise.
C9_BlankOrNonStringIsEnglish ==
    (pc = "done" /\ (text.js # "string" \/ IsBlank(text))) => langCode = "en"

C9_Witness ==
    /\ pc = "done"
    /\ text = JsNumber(5)
    /\ langCode = "en"

RunThenWord(s, list) ==
    \E p \in 1..(Len(s) - 2) :
        /\ \A k \in p..(p + 2) : Devanagari[1] <= s[k] /\ s[k] <= Devanagari[2]
        /\ \E n \in 1..Len(list), q \in (p + 2)..Len(s) : OccursAt(s, list[n], q)

\* C11: a text of at least three Devanagari code points in a row followed by
\* a Marathi function word, and holding no Hindi keyword, is classified 'mr'.
C11_MarathiByKeyword ==
    (/\ pc = "done"
     /\ text.js = "string"
     /\ RunThenWord(text.s, MarathiKeywords)
     /\ ~HasWord(text.s, HindiKeywords))
    => langCode = "mr"

(***************************************************************************)
(* Claims about isConversationEnding                                       *)
(***************************************************************************)

ClosingPhrases ==
    {shortEndingPhrases[k] : k \in 1..Len(shortEndingPhrases)}
    \cup UNION {{endingPhraseLists[k][n] : n \in 1..Len(endingPhraseLists[k])} :
                   k \in 1..Len(endingPhraseLists)}

\* A code unit of a word: a letter, a digit, or a letter of another script.
WordUnit(c) ==
    \/ c >= 48 /\ c <= 57
    \/ c >= 65 /\ c <= 90
    \/ c >= 97 /\ c <= 122
    \/ c > 127 /\ ~IsSpace(c)

\* w occurs in s after the first p code units, as a whole word or as the
\* whole of s.
WholeWordAt(s, w, p) ==
    /\ OccursAt(s, w, p)
    /\ p = 0 \/ ~WordUnit(s[p])
    /\ p + Len(w) = Len(s) \/ ~WordUnit(s[p + Len(w) + 1])

HasClosingWord(s) ==
    \E w \in ClosingPhrases, p \in 0..Len(s) : WholeWordAt(s, w, p)

\* C13: a message of 15 characters or more that holds a '?' and in which no
\* closing phrase occurs as a whole word or as the whole message (one that
\* holds 'ok' or 'bye' only inside a longer word) is classified as not ending.
C13_QuestionIsNotEnding ==
    (/\ pc = "done"
     /\ userMessage.js = "string"
     /\ Len(trim(userMessage.s)) >= 15
     /\ includes(userMessage.s, QuestionMark)
     /\ ~HasClosingWord(toLowerCase(trim(userMessage.s))))
    => ending = FALSE

(***************************************************************************)
(* Claims about the intent extraction                                      *)
(***************************************************************************)
RoomWords == <<S("bhk"), S("bedroom"), S("bed")>>
NumberWords == <<S("one"), S("two"), S("three"), S("four"), S("five")>>
CountWords == <<S("single"), S("double"), S("triple")>>

HasDigit(q) == \E k \in 1..Len(q) : q[k] >= 48 /\ q[k] <= 57

\* The word stands right before bhk, bedroom or bed, with or without a blank.
BeforeRoom(q, word) ==
    \E r \in 1..Len(RoomWords) :
        \/ includes(toLowerCase(q), word \o RoomWords[r])
        \/ includes(toLowerCase(q), word \o S(" ") \o RoomWords[r])

\* C16: a query with 'one'..'five' before bhk, bedroom or bed gives the
\* bedroom count '1'..'5', and a query with 'single', 'double' or 'triple'
\* before one of them, and no digit form, gives '1', '2' or '3'.
C16_NumberWordsToDigits ==
    (pc \in {"enhance", "again", "done"} /\ ~HasDigit(query)) =>
        /\ \A k \in 1..Len(NumberWords) :
              (/\ BeforeRoom(query, NumberWords[k])
               /\ \A j \in 1..Len(NumberWords) :
                     j # k => ~BeforeRoom(query, NumberWords[j]))
              => intent.bedrooms = <<48 + k>>
        /\ \A k \in 1..Len(CountWords) :
              (/\ BeforeRoom(query, CountWords[k])
               /\ \A j \in 1..Len(NumberWords) : ~BeforeRoom(query, NumberWords[j])
               /\ \A j \in 1..Len(CountWords) :
                     j # k => ~BeforeRoom(query, CountWords[j]))
              => intent.bedrooms = <<48 + k>>

\* An ASCII punctuation mark (the underscore counts as a word character).
IsPunctuation(c) ==
    c \in ((33..47) \cup (58..64) \cup (91..96) \cup (123..126)) \ {95}

\* The location patterns that match q with a capture that is not empty.
MatchingLocationPatterns(q) ==
    {k \in 1..Len(locationPatterns) : Group1(locationPatterns[k], q).found}

CleanEnd(c) == ~IsSpace(c) /\ ~IsPunctuation(c)

\* C17: a location extracted from the query is the capture of the first
\* location pattern, in list order, that matches, and it neither begins nor
\* ends with white space or punctuation.
C17_LocationIsCleanFirstCapture ==
    (/\ pc \in {"enhance", "again", "done"}
     /\ leadInfo.preferredLocation = <<>>
     /\ MatchingLocationPatterns(query) # {})
    => LET first == CHOOSE k \in MatchingLocationPatterns(query) :
                        \A j \in MatchingLocationPatterns(query) : k <= j
       IN /\ intent.location = trim(Group1(locationPatterns[first], query).group)
          /\ intent.location # <<>> =>
                /\ CleanEnd(intent.location[1])
                /\ CleanEnd(intent.location[Len(intent.location)])

(***************************************************************************)
(* Claims about calculateRelevanceScore                                    *)
(***************************************************************************)

\* The title or the snippet of the hit holds the word, whatever the case.
HitHolds(hit, word) ==
    \/ includes(toLowerCase(hit.title), toLowerCase(word))
    \/ includes(toLowerCase(hit.snippet), toLowerCase(word))

OnPremiumPortal(hit) ==
    \E k \in 1..Len(premiumSites) : includes(toLowerCase(hit.link), premiumSites[k])

\* The hit is on a premium portal and matches the property type, the
\* location, a price pattern and the bedroom count of the intent.
FullMatch(hit, i) ==
    /\ OnPremiumPortal(hit)
    /\ HitHolds(hit, i.propertyType)
    /\ HitHolds(hit, i.location)
    /\ PriceScore(toLowerCase(hit.title), toLowerCase(hit.snippet)) > 0
    /\ HitHolds(hit, i.bedrooms \o S(" bhk"))

\* The hit is on no recognized site and scores nothing for the property
\* type, the location, the price and the bedroom count.
NoMatchAtAll(hit, i) ==
    /\ SiteScore(toLowerCase(hit.link)) = 0
    /\ PropertyTypeScore(toLowerCase(hit.title), toLowerCase(hit.snippet), i.propertyType) = 0
    /\ LocationScore(toLowerCase(hit.title), toLowerCase(hit.snippet), i.location) = 0
    /\ PriceScore(toLowerCase(hit.title), toLowerCase(hit.snippet)) = 0
    /\ BedroomScore(toLowerCase(hit.title), toLowerCase(hit.snippet), i.bedrooms) = 0

\* The two hits score the same on the items of the rubric that do not depend
\* on the site, the property type, the location, the price or the bedrooms.
SameOtherwise(a, b, i) ==
    calculateRelevanceScoreUnmatched(a, i) = calculateRelevanceScoreUnmatched(b, i)

\* C19: for an intent with property type, location, transaction type 'buy'
\* and bedroom count, a hit on a premium portal that matches the type, the
\* location, a price pattern and the bedroom count scores strictly higher
\* than a hit on an unrecognized site with none of these matches that is
\* the same on every other item of the rubric.
C19_MatchesScoreStrictlyHigher ==
    (/\ pc = "done"
     /\ FullMatch(candidates[1], intent)
     /\ NoMatchAtAll(candidates[2], intent)
     /\ SameOtherwise(candidates[1], candidates[2], intent))
    => scores[1] > scores[2]

C19_Witness ==
    /\ pc = "done"
    /\ intent.location = S("Pune")
    /\ candidates[1].title = S("3 BHK Flat in Pune for Sale")
    /\ candidates[1].snippet = <<8377>> \o S("75 lakh")
    /\ candidates[1].link = S("https://www.99acres.com/p1")
    /\ NoMatchAtAll(candidates[2], intent)
    /\ SameOtherwise(candidates[1], candidates[2], intent)
    /\ scores[1] >= scores[2] + 20

(***************************************************************************)
(* Claims about appendSearchResults and values that are not strings        *)
(***************************************************************************)

\* C18: appendSearchResults never raises: for every list of search results,
\* empty or not, an AI response that is not a string is returned as the
\* value it was given.
C18_NonStringPassedThrough ==
    aiResponse.js # "string" =>
        /\ pc # "raised"
        /\ pc = "returned" => finalResponse = aiResponse

(***************************************************************************)
(* Claims about extractInfoFromHistory                                     *)
(***************************************************************************)
Flags == {"askedAboutName", "askedAboutBudget", "askedAboutLocation",
          "askedAboutPropertyType"}

\* The list without its k-th element.
RemoveAt(list, k) == SubSeq(list, 1, k - 1) \o SubSeq(list, k + 1, Len(list))

\* The digest of every turn list that has a turn less than the longest one.
DigestOf == [list \in TurnLists(MaxTurns - 1) |-> extractInfoFromHistory(list)]

\* Every flag that is true in the digest of the history with one turn less,
\* whichever turn it is, is true in the digest of the history.
AddedTurnKeepsFlags ==
    pc = "done" =>
        \A k \in 1..Len(formattedHistory), f \in Flags :
            DigestOf[RemoveAt(formattedHistory, k)][f] => extractedInfo[f]

\* C14: while the turns are scanned each askedAbout flag only goes from false
\* to true, and a flag that is true in the digest of a turn list is true in
\* the digest of every list made by adding a turn to it.
C14_FlagsOnlyRaised ==
    /\ [][\A f \in Flags : extractedInfo[f] => extractedInfo'[f]]_vars
    /\ []AddedTurnKeepsFlags

C14_Witness ==
    /\ pc = "done"
    /\ Len(formattedHistory) = 3
    /\ formattedHistory[1].content = S("May I know your name?")
    /\ formattedHistory[2].role = "assistant"
    /\ ~AnyPatternMatches(nameQuestionPatterns, formattedHistory[2].content)
    /\ formattedHistory[3].role = "user"
    /\ extractedInfo.askedAboutName
    /\ ~extractedInfo.askedAboutBudget

Slots == {"name", "budget", "propertyType", "preferredLocation"}

\* The values a user turn gives the slots when it is scanned on its own.
TurnSlots ==
    [content \in {t.content : t \in Turns} |->
        scanUser(emptyDigest, content).providedInfo]

SlotValue(slot, content) == TurnSlots[content][slot]

\* The user turns among the first n that provide the slot.
Providers(slot, n) ==
    {k \in 1..n : /\ formattedHistory[k].role = "user"
                  /\ SlotValue(slot, formattedHistory[k].content).js # "undefined"}

Latest(turns) == CHOOSE k \in turns : \A j \in turns : j <= k

\* After any number of rounds each slot holds the value of the latest user
\* turn scanned so far that provides it, and no value when there is none.
LatestUserTurnWins ==
    \A slot \in Slots :
        extractedInfo.providedInfo[slot] =
            IF Providers(slot, scanned) = {} THEN JsUndefined
            ELSE SlotValue(slot, formattedHistory[Latest(Providers(slot, scanned))].content)

\* C15: each providedInfo slot holds the value taken from the latest user
\* turn of the scanned turns that matches the patterns of the slot, so that
\* a later user turn that provides the slot replaces the value of an earlier
\* one; a turn of the assistant sets no slot.
C15_LatestUserTurnWins ==
    /\ []LatestUserTurnWins
    /\ [][(pc = "scan" /\ scanned < Len(formattedHistory)
           /\ formattedHistory[scanned + 1].role = "assistant")
          => extractedInfo'.providedInfo = extractedInfo.providedInfo]_vars

C15_Witness ==
    /\ pc = "done"
    /\ Len(formattedHistory) = 3
    /\ formattedHistory[1].content = S("My name is Ravi")
    /\ formattedHistory[2].content = S("I'm Asha, budget is 50,00,000 for a villa")
    /\ formattedHistory[3] =
           [role |-> "assistant", content |-> S("my name is Bot, budget is 5")]
    /\ extractedInfo.providedInfo.name = JsString(S("Asha"))


(***************************************************************************)
(* Claims about the data of the caller of generateResponse                 *)
(***************************************************************************)
\* The arguments of the call under way, and what it derives from them.
ThisMessage == trim(userMessage.s)

ThisDigest == extractInfoFromHistory(formatMessageHistory(messageHistory))

\* The text of a property of the lead record of the host, or of the digest
\* when the record has none; the digest is that of the history of the call
\* where extractedInfo is.
SlotOfCall(slot) ==
    IF Held(hostLead, slot) THEN hostLead[slot]
    ELSE IF Truthy(extractedInfo.providedInfo[slot])
         THEN extractedInfo.providedInfo[slot].s
         ELSE <<>>

SlotOfCopy(slot) ==
    IF slot \in DOMAIN enhancedLeadInfo THEN enhancedLeadInfo[slot] ELSE <<>>

\* No step of the handling of a message changes the lead record or the
\* message history of the host.
CallerDataKept == hostLead' = hostLead /\ messageHistory' = messageHistory

\* When a call starts, none of the values a call derives is set.
NothingAtEntry ==
    pc = "message" =>
        /\ query = None /\ intent = None /\ enhancedQuery = None
        /\ response = None /\ results = None
        /\ ending = None /\ enhancedLeadInfo = None
        /\ formattedHistory = None /\ extractedInfo = None
        /\ aiResponse = None /\ searchResults = None /\ finalResponse = None

\* When the prompt of a call is made, the intent, the search results, the
\* ending flag, the digest, the copy of the lead record and the turn list
\* are those of the message, the lead record and the history of this call.
DerivedFromThisCall ==
    pc = "prompt" =>
        /\ query = ThisMessage
        /\ configured => intent = extractIntent(ThisMessage, NoLead)
        /\ enhancedLeadInfo.currentMessage = ThisMessage
        /\ enhancedLeadInfo.searchResults = results
        /\ ("isEndingConversation" \in DOMAIN enhancedLeadInfo)
               = isConversationEnding(JsString(ThisMessage))
        /\ extractedInfo = ThisDigest
        /\ enhancedLeadInfo.conversationHistory = extractedInfo
        /\ \A slot \in Slots : SlotOfCopy(slot) = SlotOfCall(slot)
        /\ SubSeq(formattedHistory, 1, Len(formattedHistory) - 1)
               = formatMessageHistory(messageHistory)
        /\ formattedHistory[Len(formattedHistory)].content
               = enhanceUserMessage(ThisMessage, enhancedLeadInfo)

\* C20: while messages are handled one after the other, no step changes the
\* lead record or the message-history array the caller passes; a call
\* starts with none of the values of the call before it, and the intent,
\* the search results, the digest and the copy of the lead record it makes
\* are derived from its own arguments.
C20_CallerDataKeptCallsFresh ==
    /\ [][CallerDataKept]_vars
    /\ []NothingAtEntry
    /\ []DerivedFromThisCall

\* The second call, for a message that is no ending after one that was: the
\* copy has the name and the budget of the history and the search results,
\* the record of the host has none of them, and the copy has no ending flag.
C20_Witness ==
    /\ handled = 1
    /\ pc = "prompt"
    /\ includes(requests[1].q, S("thanks"))
    /\ userMessage = JsString(S(" flat for rent under rs 50,000 "))
    /\ hostLead = NoLead
    /\ Len(messageHistory) = 2
    /\ enhancedLeadInfo.name = S("Asha")
    /\ enhancedLeadInfo.searchResults # <<>>
    /\ "isEndingConversation" \notin DOMAIN enhancedLeadInfo
    /\ Len(formattedHistory) = 3


(***************************************************************************)
(* Claims about the failures of the search provider                        *)
(***************************************************************************)
\* The requests sent so far with the given number of results asked for.
RequestsWith(num) == {k \in 1..Len(requests) : requests[k].num = num}

\* At most one first request and at most one fallback request are sent, and
\* a fallback request is the last request sent.
FallbackOnceAndLast ==
    /\ Cardinality(RequestsWith(10)) <= 1
    /\ Cardinality(RequestsWith(5)) <= 1
    /\ \A k \in RequestsWith(5) : k = Len(requests)

\* Every call ends in a list: the operation is at one of its positions, and
\* where it has returned the value returned is a list.
NeverRejects ==
    /\ pc \in {"search", "primary", "fallback", "returned"}
    /\ pc = "returned" => results \in Seq(Hits \cup {fallbackItem(h) : h \in Hits}
                                          \cup {enhancedItem(h) : h \in Hits})

\* The step in which the first request raises sends the fallback request,
\* and no other step sends one while the first request is under way.
FallbackAfterPrimaryRaises ==
    (pc = "primary" /\ pc' = "fallback") =>
        /\ requests[Len(requests)].num = 10
        /\ requests' = Append(requests, fallbackRequest(query))

\* An empty answer to the first request, and a fallback request that fails
\* or is answered with nothing, end in the empty list.
EmptyEndsEmpty ==
    /\ (pc = "primary" /\ pc' = "returned"
          /\ (~response'.data \/ response'.items = <<>>)) => results' = <<>>
    /\ (pc = "fallback" /\ pc' = "returned" /\ requests' = requests
          /\ results' # <<>>) => (response'.data /\ response'.items # <<>>)

\* C21: searchRealEstateInfo never rejects; when the first request raises,
\* one fallback request is sent after it, never before it and never twice;
\* an empty answer to the first request, a failing fallback request and an
\* empty answer to it give the empty list.
C21_FailuresTolerated ==
    /\ []NeverRejects
    /\ []FallbackOnceAndLast
    /\ [][FallbackAfterPrimaryRaises]_vars
    /\ [][EmptyEndsEmpty]_vars

\* The first request has raised, the fallback request has failed as well,
\* and the empty list is returned.
C21_Witness ==
    /\ pc = "returned"
    /\ Len(requests) = 2
    /\ requests[1].num = 10 /\ requests[2].num = 5
    /\ results = <<>>


(***************************************************************************)
(* Claims about the rubric of calculateRelevanceScore                      *)
(***************************************************************************)
\* What the step under way adds to the score.
Added == scores'[1] - scores[1]

\* The link of the hit, as the rubric reads it.
HitLink == toLowerCase(candidates[1].link)

\* The link has the domain of a premium portal in it.
OnPremiumDomain == AnyIncluded(Strs(premiumPortals), HitLink)

\* C22: the source-domain item adds 20 exactly when the link has the domain
\* of a premium portal in it, else 15 exactly when it has a standard site
\* in it, else 5 exactly when it has another known site in it, else 0.
C22_SiteTierByDomain ==
    [][pc = "site" =>
          Added = IF OnPremiumDomain THEN 20
                  ELSE IF AnyIncluded(standardSites, HitLink) THEN 15
                  ELSE IF AnyIncluded(otherSites, HitLink) THEN 5
                  ELSE 0]_vars


\* The title and the snippet of the hit, as the rubric reads them.
HitTitle == toLowerCase(candidates[1].title)
HitSnippet == toLowerCase(candidates[1].snippet)

\* A buy-term, a rent-term matches the title or the snippet of the hit.
BuyTermMatches ==
    \E k \in 1..Len(buyPatterns) :
        test(buyPatterns[k], HitTitle, TRUE) \/ test(buyPatterns[k], HitSnippet, TRUE)
RentTermMatches ==
    \E k \in 1..Len(rentPatterns) :
        test(rentPatterns[k], HitTitle, TRUE) \/ test(rentPatterns[k], HitSnippet, TRUE)

\* A term of the wanted transaction, of the other transaction matches.
OwnTermMatches ==
    \/ intent.transactionType = S("buy") /\ BuyTermMatches
    \/ intent.transactionType = S("rent") /\ RentTermMatches
OtherTermMatches ==
    \/ intent.transactionType = S("buy") /\ RentTermMatches
    \/ intent.transactionType = S("rent") /\ BuyTermMatches

\* C23: the transaction item adds 10 when a term of the wanted transaction
\* matches the title or the snippet and takes 15 away when a term of the
\* other transaction matches; it adds 0 when the transaction type is unset
\* or no term of either list matches.  The 15 is subtracted from the total.
C23_TransactionAlignment ==
    [][pc = "transaction" =>
          /\ Added = (IF OwnTermMatches THEN 10 ELSE 0)
                     - (IF OtherTermMatches THEN 15 ELSE 0)
          /\ intent.transactionType = <<>> => Added = 0
          /\ ~BuyTermMatches /\ ~RentTermMatches => Added = 0]_vars

\* A hit with a term of the other transaction only, whose total is negative
\* and would not be without the 15 taken away.
C23_Witness ==
    /\ pc = "done"
    /\ OtherTermMatches /\ ~OwnTermMatches
    /\ scores[1] < 0 /\ scores[1] + 15 >= 0


(***************************************************************************)
(* Claims about the removal of short fragments                             *)
(***************************************************************************)
\* The pieces of a text between its periods.
SplitOnPeriod(s) ==
    LET periods == SelectSeq([k \in 1..Len(s) |-> k], LAMBDA k : s[k] = 46)
        cuts == <<0>> \o periods \o <<Len(s) + 1>>
    IN [n \in 1..(Len(periods) + 1) |-> SubSeq(s, cuts[n] + 1, cuts[n + 1] - 1)]

\* The sentence fragments of a text: the pieces between its periods without
\* the blanks around them, the empty ones left out.
FragmentsOf(s) ==
    SelectSeq([n \in 1..Len(SplitOnPeriod(s)) |-> trim(SplitOnPeriod(s)[n])],
              LAMBDA f : f # <<>>)

\* The members of a sequence at the positions of keep, in their order.
Restricted(seq, keep) ==
    LET at == SelectSeq([k \in 1..Len(seq) |-> k], LAMBDA k : k \in keep)
    IN [n \in 1..Len(at) |-> seq[at[n]]]

\* after is before without some fragments of less than 20 characters.
OnlyShortDropped(before, after) ==
    \E keep \in SUBSET (1..Len(before)) :
        /\ after = Restricted(before, keep)
        /\ \A k \in (1..Len(before)) \ keep : Len(before[k]) < 20

\* C24: the last step of the cleaning drops only fragments of less than 20
\* characters: a fragment of 20 or more characters between periods is kept,
\* and the fragments that stay are in the order they had.
C24_OnlyShortFragmentsDropped ==
    [][pc = "fragments" =>
          OnlyShortDropped(FragmentsOf(cleanedResponse),
                           FragmentsOf(cleanedResponse'))]_vars


(***************************************************************************)
(* Claims about the property-type vocabularies                             *)
(***************************************************************************)
\* The property type the history miner has found in the user turn.
MinedType == extractedInfo.providedInfo.propertyType

\* C25: on every text, the history miner sets providedInfo.propertyType
\* exactly when the intent extractor extracts a property type from the same
\* text, and the value it sets is a word of the extractor's vocabulary.
C25_SameTypeVocabulary ==
    pc = "done" =>
        /\ (MinedType # JsUndefined) <=> (intent.propertyType # <<>>)
        /\ MinedType # JsUndefined =>
              \E k \in 1..Len(propertyTypes) : MinedType = JsString(propertyTypes[k])


(***************************************************************************)
(* Claims about the digest over the requests of a conversation             *)
(***************************************************************************)
\* The turns the host stores in the conversations of the model.
StoredTurns ==
    {start[k] : start \in ConversationStarts \ {<<>>}, k \in {1}}
    \cup {exchange[k] : exchange \in Exchanges, k \in {1, 2}}

\* The digest of a history of the one turn.
TurnAlone ==
    [turn \in StoredTurns |-> extractInfoFromHistory(formatMessageHistory(<<turn>>))]

\* The places of the stored history among its HistoryWindow most recent.
RecentPlaces ==
    {k \in 1..Len(messageHistory) : k > Len(messageHistory) - HistoryWindow}

\* A recent turn raises the flag, supplies the slot.
RaisedRecently(flag) == \E k \in RecentPlaces : TurnAlone[messageHistory[k]][flag]
SuppliedRecently(slot) ==
    \E k \in RecentPlaces :
        TurnAlone[messageHistory[k]].providedInfo[slot] # JsUndefined

\* The slot is set in the digest.
SlotSet(digest, slot) == digest.providedInfo[slot] # JsUndefined

\* C26 as stated: a flag that is true and a slot that is set in the digest
\* of one request are true and set in the digest of every later request,
\* however many turns have been stored since.
C26_DigestNeverLoses ==
    [][pc = "request" =>
          /\ \A flag \in Flags : extractedInfo[flag] => extractedInfo'[flag]
          /\ \A slot \in Slots :
                SlotSet(extractedInfo, slot) => SlotSet(extractedInfo', slot)]_vars

\* C26: a flag that is true and a slot that is set in the digest of one
\* request are true and set in the digest of a later request as long as a
\* turn that raises the flag, that supplies the slot, is among the 10 most
\* recent turns of the stored history.
C26_DigestKeepsRecent ==
    [][pc = "request" =>
          /\ \A flag \in Flags :
                extractedInfo[flag] /\ RaisedRecently(flag) => extractedInfo'[flag]
          /\ \A slot \in Slots :
                SlotSet(extractedInfo, slot) /\ SuppliedRecently(slot)
                    => SlotSet(extractedInfo', slot)]_vars

\* The name of the first exchange has left the window of a history of more
\* than 10 turns, a later exchange supplies it again, and the digest has it.
C26_Witness ==
    /\ pc = "replied"
    /\ Len(messageHistory) > HistoryWindow
    /\ Len(formattedHistory) = HistoryWindow
    /\ messageHistory[1].message = S("My name is Ravi")
    /\ messageHistory[3].message = S("ok")
    /\ SuppliedRecently("name")
    /\ SlotSet(extractedInfo, "name")
    /\ extractedInfo.askedAboutBudget


(***************************************************************************)
(* Claims about the next-question cascade of the system prompt             *)
(***************************************************************************)
\* The lines of the system message of the request under way.
SystemLines == formattedHistory[1].content

\* The instructions of the cascade.
Instructions ==
    {"ending", "allCollected", "askName", "askPropertyType", "askBudget",
     "askLocation", "respondOnly"}

\* The instructions the system message has.
Emitted == {SystemLines[k].label : k \in 1..Len(SystemLines)} \cap Instructions

\* The instruction that asks for a slot, and the flag of the digest for it.
AskFor ==
    [name |-> "askName", propertyType |-> "askPropertyType",
     budget |-> "askBudget", preferredLocation |-> "askLocation"]
AskedFlag ==
    [name |-> "askedAboutName", propertyType |-> "askedAboutPropertyType",
     budget |-> "askedAboutBudget", preferredLocation |-> "askedAboutLocation"]

\* C27: with oneQuestionAtATime set, the system prompt has exactly one
\* instruction of the cascade, and it asks for a slot only when the message
\* is not a conversation ending, the lead record has no value for the slot
\* and the digest of the history has not the flag of the slot.
C27_OneInstructionNoRepeat ==
    (pc \in {"prompt", "replied"} /\ enhancedLeadInfo.oneQuestionAtATime) =>
        /\ Cardinality(Emitted) = 1
        /\ \A slot \in Slots :
              AskFor[slot] \in Emitted =>
                  /\ ~isConversationEnding(userMessage)
                  /\ ~Held(hostLead, slot) /\ ~Held(enhancedLeadInfo, slot)
                  /\ ~extractedInfo[AskedFlag[slot]]

\* The name is known and the property type has been asked for but is not
\* known: the budget is asked for.
C27_Witness ==
    /\ pc = "prompt"
    /\ Held(hostLead, "name") /\ ~Held(enhancedLeadInfo, "propertyType")
    /\ extractedInfo.askedAboutPropertyType
    /\ ~extractedInfo.askedAboutBudget
    /\ Emitted = {"askBudget"}


(***************************************************************************)
(* Claims about the range of the relevance score                           *)
(***************************************************************************)
\* C28: the relevance score of a hit is an integer from -35 to 135, at the
\* end of the rubric, whatever the hit and the intent.
C28_ScoreWithinRange ==
    pc = "done" => scores[1] \in -35..135

\* A listing on a premium portal that matches the type, the location, the
\* bedroom count and the transaction, with every other bonus: 135.
C28_Witness ==
    /\ pc = "done"
    /\ scores[1] = 135
    /\ OnPremiumDomain /\ OwnTermMatches /\ ~OtherTermMatches


(***************************************************************************)
(* Claims about the search without its configuration                       *)
(***************************************************************************)
\* C29: when the API key or the search-engine id is not configured,
\* searchRealEstateInfo sends no request to the search provider, neither the
\* first one nor the fallback one, and returns the empty list.
C29_UnconfiguredSendsNothing ==
    ~configured =>
        /\ requests = <<>>
        /\ pc = "returned" => results = <<>>


(***************************************************************************)
(* Claims about the error contract of generateResponse                     *)
(***************************************************************************)
\* The user message is a string with more than blanks in it.
ValidMessage ==
    /\ Truthy(userMessage) /\ TypeOf(userMessage) = "string"
    /\ trim(userMessage.s) # <<>>

\* C30: generateResponse never rejects, whatever the message, the lead
\* record, the configuration and the outcomes of the search and of the AI
\* request, and no request of the search or of the AI is made for a message
\* that does not pass the validation.
C30_NeverRejects ==
    /\ pc # "rejected"
    /\ (requests # <<>> \/ pc = "prompt") => ValidMessage

====
